---------------------------- MODULE Spec2Model ----------------------------
(***************************************************************************)
(* A model of the Mornington interpreter: the runtime's scope stack        *)
(* (src/src/runtime.rs), the tree-walking evaluator (src/src/ast.rs,       *)
(* src/src/ast/builtins.rs), the value model (src/src/value.rs), the       *)
(* lexer (src/src/lexer.rs) and the parser (src/src/parser.rs).            *)
(*                                                                         *)
(* Text is modelled as a sequence of one-character strings, so that        *)
(* lengths, prefixes and slices are those of the source.  Names are text.  *)
(* Numbers are the integers (the f64 values the bounded inputs produce).   *)
(***************************************************************************)
EXTENDS Integers, Sequences, FiniteSets, TLC

VARIABLES
    stack,      \* Runtime.stack: the sequence of scopes, bottom first
    io,         \* the process's standard output, standard error and standard input
    steps,      \* the number of top-level statements executed
    last,       \* the last operation applied and its result
    lexer,      \* the Lexer
    consumed,   \* the token texts and skipped whitespace runs, in order
    parser      \* the Parser

vars == <<stack, io, steps, last, lexer, consumed, parser>>

(***************************************************************************)
(* Bounds of the model.                                                    *)
(***************************************************************************)
MaxDepth == 2
\* top-level statements of a program
MaxSteps == 3
\* nested user-function calls and loop iterations of one statement
MaxFuel == 4
\* pieces (keywords, characters) a lexed source is made of
MaxPieces == 3
\* operators of a flat infix expression
MaxOperators == 2
\* characters of a run of parentheses, brackets or quotes
MaxRun == 3
\* statements around the statement a program is about
MaxNest == 2
\* parameters of a function
MaxParams == 2
\* iterations of a loop
MaxIterations == 2
MaxPaths == 3
MaxElements == 2
\* the number at which the loop of a source breaks
MaxLimit == 3
\* the values a vector holds before the allocation of one more fails
MaxSequence == 6

(***************************************************************************)
(* Text helpers.                                                           *)
(***************************************************************************)
T_a == <<"a">>
T_b == <<"b">>

(***************************************************************************)
(* value.rs: enum Value.                                                   *)
(***************************************************************************)
Number(n) == [t |-> "Number", v |-> n]
Bool(b) == [t |-> "Bool", v |-> b]
String(s) == [t |-> "String", v |-> s]
List(l) == [t |-> "List", v |-> l]

(***************************************************************************)
(* Text: the printable ASCII characters in code-point order, from 32.      *)
(***************************************************************************)
Ascii ==
    <<" ", "!", "\"", "#", "$", "%", "&", "'", "(", ")", "*", "+", ",", "-",
      ".", "/", "0", "1", "2", "3", "4", "5", "6", "7", "8", "9", ":", ";",
      "<", "=", ">", "?", "@", "A", "B", "C", "D", "E", "F", "G", "H", "I",
      "J", "K", "L", "M", "N", "O", "P", "Q", "R", "S", "T", "U", "V", "W",
      "X", "Y", "Z", "[", "\\", "]", "^", "_", "grave", "a", "b", "c", "d", "e",
      "f", "g", "h", "i", "j", "k", "l", "m", "n", "o", "p", "q", "r", "s",
      "t", "u", "v", "w", "x", "y", "z", "{", "|", "}", "~">>

\* char as u32 (the grave accent, code point 96, is not used in any text)
CodePoint(c) ==
    IF c = "\n" THEN 10
    ELSE IF c = "\t" THEN 9
    ELSE 31 + (CHOOSE i \in 1..Len(Ascii) : Ascii[i] = c)

Digits == <<"0", "1", "2", "3", "4", "5", "6", "7", "8", "9">>

RECURSIVE NatToText(_)
NatToText(n) ==
    IF n < 10 THEN <<Digits[n + 1]>>
    ELSE NatToText(n \div 10) \o <<Digits[(n % 10) + 1]>>

\* f64 on the integers, with one integer out of the range of the model kept
\* for NaN, the value of 0.0 % 0.0
NaN == 0 - 2147483647

IsNaN(n) == n = NaN

\* f64 + - *
Plus(a, b) == IF IsNaN(a) \/ IsNaN(b) THEN NaN ELSE a + b
Minus(a, b) == IF IsNaN(a) \/ IsNaN(b) THEN NaN ELSE a - b
Times(a, b) == IF IsNaN(a) \/ IsNaN(b) THEN NaN ELSE a * b

\* f64 == and <: false of NaN
NumberEq(a, b) == ~IsNaN(a) /\ ~IsNaN(b) /\ a = b
NumberLt(a, b) == ~IsNaN(a) /\ ~IsNaN(b) /\ a < b

\* Display for f64, on the integers
NumberToText(n) ==
    IF IsNaN(n) THEN <<"N", "a", "N">>
    ELSE IF n < 0 THEN <<"-">> \o NatToText(0 - n) ELSE NatToText(n)

RECURSIVE SumSeq(_)
SumSeq(ns) == IF ns = <<>> THEN 0 ELSE Plus(ns[1], SumSeq(Tail(ns)))

RECURSIVE Concat(_)
Concat(texts) == IF texts = <<>> THEN <<>> ELSE texts[1] \o Concat(Tail(texts))

RECURSIVE Repeat(_, _)
Repeat(s, n) == IF n <= 0 THEN <<>> ELSE s \o Repeat(s, n - 1)

Abs(n) == IF n < 0 THEN 0 - n ELSE n

\* f64::abs() as usize: NaN gives 0
AbsAsUsize(n) == IF IsNaN(n) THEN 0 ELSE Abs(n)

(***************************************************************************)
(* value.rs: the coercions.                                                *)
(***************************************************************************)
RECURSIVE coerce_to_number(_)
coerce_to_number(value) ==
    CASE value.t = "Number" -> value.v
      [] value.t = "Bool" -> IF value.v THEN 1 ELSE 0
      [] value.t = "String" ->
            SumSeq([i \in 1..Len(value.v) |-> CodePoint(value.v[i])])
      [] value.t = "List" ->
            SumSeq([i \in 1..Len(value.v) |-> coerce_to_number(value.v[i])])

\* a coercion that asked all the elements of a list to be true
RECURSIVE coerce_to_bool_of_all(_)
coerce_to_bool_of_all(value) ==
    CASE value.t = "Number" -> ~NumberEq(value.v, 0)
      [] value.t = "Bool" -> value.v
      [] value.t = "String" -> coerce_to_number(value) # 0
      [] value.t = "List" -> \A i \in 1..Len(value.v) : coerce_to_bool_of_all(value.v[i])

RECURSIVE coerce_to_bool(_)
coerce_to_bool(value) ==
    CASE value.t = "Number" -> ~NumberEq(value.v, 0)
      [] value.t = "Bool" -> value.v
      [] value.t = "String" -> coerce_to_bool(Number(coerce_to_number(value)))
      [] value.t = "List" -> \E i \in 1..Len(value.v) : coerce_to_bool(value.v[i])

\* impl Display for Value
RECURSIVE Display(_)
Display(value) ==
    CASE value.t = "Number" -> NumberToText(value.v)
      [] value.t = "Bool" ->
            IF value.v THEN <<"r", "t", "u", "e">> ELSE <<"f", "l", "a", "s", "e">>
      [] value.t = "String" -> <<"\"">> \o value.v \o <<"\"", "\"">>
      [] value.t = "List" ->
            IF value.v = <<>> THEN <<"[", "]", "]">>
            ELSE <<"[">>
                 \o Concat([i \in 1..Len(value.v) |->
                        Display(value.v[i])
                        \o (IF i # Len(value.v) THEN <<",", " ">>
                            ELSE IF value.v[i].t = "List" THEN <<" ">>
                            ELSE <<>>)])
                 \o <<"]", "]">>

coerce_to_string(value) == IF value.t = "String" THEN value.v ELSE Display(value)

coerce_to_list(value) == IF value.t = "List" THEN value.v ELSE <<value>>

(***************************************************************************)
(* value.rs: the operators.                                                *)
(***************************************************************************)
Xor(a, b) == (a \/ b) /\ ~(a /\ b)

\* the first index at which needle occurs in text, 0 when there is none
FindText(text, needle) ==
    LET hits == {i \in 1..(Len(text) - Len(needle) + 1) :
                    SubSeq(text, i, i + Len(needle) - 1) = needle}
    IN  IF hits = {} THEN 0 ELSE CHOOSE i \in hits : \A j \in hits : i <= j

\* str::replacen(rhs, "", 1)
RemoveFirstText(text, needle) ==
    LET i == FindText(text, needle)
    IN  IF i = 0 THEN text
        ELSE SubSeq(text, 1, i - 1) \o SubSeq(text, i + Len(needle), Len(text))

\* #[derive(PartialEq)] for Value
RECURSIVE PartialEq(_, _)
PartialEq(v, w) ==
    IF v.t # w.t THEN FALSE
    ELSE CASE v.t = "Number" -> NumberEq(v.v, w.v)
           [] v.t = "Bool" -> v.v = w.v
           [] v.t = "String" -> v.v = w.v
           [] v.t = "List" ->
                 /\ Len(v.v) = Len(w.v)
                 /\ \A i \in 1..Len(v.v) : PartialEq(v.v[i], w.v[i])

\* the first index of an element equal to value, 0 when there is none
FindElement(list, value) ==
    LET hits == {i \in 1..Len(list) : PartialEq(list[i], value)}
    IN  IF hits = {} THEN 0 ELSE CHOOSE i \in hits : \A j \in hits : i <= j

Value_add(lhs, rhs) ==
    CASE lhs.t = "Number" -> Number(Plus(lhs.v, coerce_to_number(rhs)))
      [] lhs.t = "Bool" -> Bool(lhs.v \/ coerce_to_bool(rhs))
      [] lhs.t = "String" -> String(lhs.v \o coerce_to_string(rhs))
      [] lhs.t = "List" -> List(lhs.v \o coerce_to_list(rhs))

Value_sub(lhs, rhs) ==
    CASE lhs.t = "Number" -> Number(Minus(lhs.v, coerce_to_number(rhs)))
      [] lhs.t = "Bool" -> Bool(Xor(lhs.v, coerce_to_bool(rhs)))
      [] lhs.t = "String" -> String(RemoveFirstText(lhs.v, coerce_to_string(rhs)))
      [] lhs.t = "List" ->
            LET i == FindElement(lhs.v, rhs)
            IN  IF i = 0 THEN lhs
                ELSE List(SubSeq(lhs.v, 1, i - 1) \o SubSeq(lhs.v, i + 1, Len(lhs.v)))

Value_mul(lhs, rhs) ==
    CASE lhs.t = "Number" -> Number(Times(lhs.v, coerce_to_number(rhs)))
      [] lhs.t = "Bool" -> Bool(lhs.v /\ coerce_to_bool(rhs))
      [] lhs.t = "String" -> String(Repeat(lhs.v, AbsAsUsize(coerce_to_number(rhs))))
      [] lhs.t = "List" -> List(Repeat(lhs.v, AbsAsUsize(coerce_to_number(rhs))))

Value_seq(lhs, rhs) == Bool(PartialEq(lhs, rhs))

Value_sne(lhs, rhs) == Bool(~PartialEq(lhs, rhs))

Value_eq(lhs, rhs) ==
    Bool(CASE lhs.t = "Number" -> NumberEq(lhs.v, coerce_to_number(rhs))
           [] lhs.t = "Bool" -> lhs.v = coerce_to_bool(rhs)
           [] lhs.t = "String" -> lhs.v = coerce_to_string(rhs)
           [] lhs.t = "List" -> PartialEq(lhs, List(coerce_to_list(rhs))))

Value_ne(lhs, rhs) == Bool(~coerce_to_bool(Value_eq(lhs, rhs)))

Value_gt(lhs, rhs) == Bool(NumberLt(coerce_to_number(rhs), coerce_to_number(lhs)))

Value_lt(lhs, rhs) == Bool(NumberLt(coerce_to_number(lhs), coerce_to_number(rhs)))

Value_ge(lhs, rhs) == Bool(~coerce_to_bool(Value_lt(lhs, rhs)))

Value_le(lhs, rhs) == Bool(~coerce_to_bool(Value_gt(lhs, rhs)))

(***************************************************************************)
(* error.rs: Result and the error kinds the runtime produces.              *)
(***************************************************************************)
Ok(v) == [tag |-> "Ok", value |-> v]
Err(e) == [tag |-> "Err", error |-> e]
NameError(name) == [kind |-> "Name", name |-> name]
SignatureError(function_name, expected_args, passed_args) ==
    [kind |-> "Signature", function_name |-> function_name,
     expected_args |-> expected_args, passed_args |-> passed_args]
InputError == [kind |-> "Input"]
BreakError == [kind |-> "Break"]
ContinueError == [kind |-> "Continue"]
ReturnError(value) == [kind |-> "Return", value |-> value]
\* not an error of the program: the statement did not finish within MaxFuel
\* calls and iterations, and the model leaves it out
OutOfFuel == [kind |-> "OutOfFuel"]

(***************************************************************************)
(* runtime.rs: Scope.  A HashMap is a function on the set of its keys.     *)
(***************************************************************************)
EmptyMap == [k \in {} |-> 0]

MapInsert(map, key, value) ==
    [k \in (DOMAIN map) \cup {key} |-> IF k = key THEN value ELSE map[k]]

Scope_new == [variables |-> EmptyMap, functions |-> EmptyMap]

Scope_has_variable(scope, name) == name \in DOMAIN scope.variables

Scope_get_variable(scope, name) == scope.variables[name]

Scope_set_variable(scope, name, value) ==
    [scope EXCEPT !.variables = MapInsert(scope.variables, name, value)]

Scope_has_function_definition(scope, name) == name \in DOMAIN scope.functions

Scope_get_function_definition(scope, name) == scope.functions[name]

Scope_set_function_definition(scope, name, definition) ==
    [scope EXCEPT !.functions = MapInsert(scope.functions, name, definition)]

(***************************************************************************)
(* runtime.rs: Runtime.                                                    *)
(***************************************************************************)
Runtime_new == <<Scope_new>>

begin_scope(st) == Append(st, Scope_new)

\* Vec::pop on an empty vector does nothing
end_scope(st) == IF Len(st) = 0 THEN st ELSE SubSeq(st, 1, Len(st) - 1)

\* the scopes that bind the variable, as indices into the stack
VariableScopes(st, name) ==
    {i \in 1..Len(st) : Scope_has_variable(st[i], name)}

FunctionScopes(st, name) ==
    {i \in 1..Len(st) : Scope_has_function_definition(st[i], name)}

Highest(indices) == CHOOSE i \in indices : \A j \in indices : j <= i

get_variable_top_only(st, name) ==
    IF Scope_has_variable(st[Len(st)], name)
    THEN Ok(Scope_get_variable(st[Len(st)], name))
    ELSE Err(NameError(name))

get_variable(st, name) ==
    IF VariableScopes(st, name) = {}
    THEN Err(NameError(name))
    ELSE Ok(Scope_get_variable(st[Highest(VariableScopes(st, name))], name))

set_variable_top_only(st, name, value) ==
    [st EXCEPT ![Len(st)] = Scope_set_variable(st[Len(st)], name, value)]

set_variable(st, name, value) ==
    IF VariableScopes(st, name) = {}
    THEN [st EXCEPT ![Len(st)] = Scope_set_variable(st[Len(st)], name, value)]
    ELSE LET i == Highest(VariableScopes(st, name))
         IN  [st EXCEPT ![i] = Scope_set_variable(st[i], name, value)]

get_function_definition(st, name) ==
    IF FunctionScopes(st, name) = {}
    THEN Err(NameError(name))
    ELSE Ok(Scope_get_function_definition(st[Highest(FunctionScopes(st, name))], name))

set_function_definition_digging(st, name, definition) ==
    IF FunctionScopes(st, name) = {}
    THEN [st EXCEPT ![Len(st)] = Scope_set_function_definition(st[Len(st)], name, definition)]
    ELSE LET i == Highest(FunctionScopes(st, name))
         IN  [st EXCEPT ![i] = Scope_set_function_definition(st[i], name, definition)]

set_function_definition(st, name, definition) ==
    [st EXCEPT ![Len(st)] = Scope_set_function_definition(st[Len(st)], name, definition)]

(***************************************************************************)
(* ast.rs: the nodes of the tree.  A Block is the sequence of its          *)
(* statements; an Option is a sequence of length 0 or 1.                   *)
(***************************************************************************)
ConstantNode(value) == [node |-> "Constant", value |-> value]
ListNode(list) == [node |-> "List", list |-> list]
OperatorNode(lhs, rhs, operator) ==
    [node |-> "Operator", lhs |-> lhs, rhs |-> rhs, operator |-> operator]
VariableNode(name) == [node |-> "Variable", name |-> name]
FunctionCallNode(name, args) == [node |-> "FunctionCall", name |-> name, args |-> args]
AssignNode(target, expression) ==
    [node |-> "Assign", target |-> target, expression |-> expression]
ConditionalPath(condition, block) == [condition |-> condition, block |-> block]
ConditionalNode(conditional_paths, else_block) ==
    [node |-> "Conditional", conditional_paths |-> conditional_paths,
     else_block |-> else_block]
WhileLoopNode(condition, block) ==
    [node |-> "WhileLoop", condition |-> condition, block |-> block]
ForLoopNode(iterable, loop_variable, block) ==
    [node |-> "ForLoop", iterable |-> iterable, loop_variable |-> loop_variable,
     block |-> block]
BreakNode == [node |-> "Break"]
ContinueNode == [node |-> "Continue"]
ReturnNode(return_value) == [node |-> "Return", return_value |-> return_value]
FunctionDefinitionNode(name, parameters, block) ==
    [node |-> "FunctionDefinition", name |-> name, parameters |-> parameters,
     block |-> block]

(***************************************************************************)
(* The evaluator.  A world is the runtime's stack with the process's       *)
(* streams; evaluating or executing a node in a world gives the world      *)
(* after it and the Result the Rust function returns.  fuel bounds the     *)
(* nesting of user-function calls and the iterations of a loop.            *)
(***************************************************************************)
World(st, streams) == [stack |-> st, io |-> streams]

Outcome(w, res) == [w |-> w, res |-> res]

IsErr(r) == r.res.tag = "Err"

OkUnit == Ok("unit")

EmptyList == List(<<>>)

WithStack(w, st) == [w EXCEPT !.stack = st]

\* print! and eprint!
Write(w, stream, text) ==
    IF stream = "stdout"
    THEN [w EXCEPT !.io.stdout = @ \o text]
    ELSE [w EXCEPT !.io.stderr = @ \o text]

\* ast.rs: OperatorNode::evaluate, the match on the operator, without Div
\* and Mod; Mod is Value_modulus below.
ApplyOperator(operator, lhs, rhs) ==
    CASE operator = "Add" -> Value_add(lhs, rhs)
      [] operator = "Sub" -> Value_sub(lhs, rhs)
      [] operator = "Mul" -> Value_mul(lhs, rhs)
      [] operator = "Seq" -> Value_seq(lhs, rhs)
      [] operator = "Sne" -> Value_sne(lhs, rhs)
      [] operator = "Eq" -> Value_eq(lhs, rhs)
      [] operator = "Ne" -> Value_ne(lhs, rhs)
      [] operator = "Gt" -> Value_gt(lhs, rhs)
      [] operator = "Lt" -> Value_lt(lhs, rhs)
      [] operator = "Ge" -> Value_ge(lhs, rhs)
      [] operator = "Le" -> Value_le(lhs, rhs)

T_pront == <<"p", "r", "o", "n", "t">>
T_prointl == <<"p", "r", "o", "i", "n", "t", "l">>
T_pritner == <<"p", "r", "i", "t", "n", "e", "r">>
T_rpintnlwr == <<"r", "p", "i", "n", "t", "n", "l", "w", "r">>
T_inptu == <<"i", "n", "p", "t", "u">>
T_arnge == <<"a", "r", "n", "g", "e">>

\* builtins.rs: input.  read_line gives the next line of standard input with
\* its newline, the empty text at end of input, or fails.
builtins_input(w) ==
    IF w.io.stdin = <<>> THEN Outcome(w, Ok(String(<<>>)))
    ELSE IF Head(w.io.stdin).ok
         THEN Outcome([w EXCEPT !.io.stdin = Tail(@)], Ok(String(Head(w.io.stdin).line)))
         ELSE Outcome([w EXCEPT !.io.stdin = Tail(@)], Err(InputError))

\* a range that went up to its finish and took it in
RECURSIVE RangeSequence_including_finish(_, _, _, _)
RangeSequence_including_finish(current, finish, step, fuel) ==
    IF NumberLt(finish, current) \/ IsNaN(finish) \/ IsNaN(current) THEN Ok(<<>>)
    ELSE IF fuel = 0 THEN Err(OutOfFuel)
    ELSE LET rest == RangeSequence_including_finish(Plus(current, step), finish, step,
                                                    fuel - 1)
         IN  IF rest.tag = "Err" THEN rest
             ELSE Ok(<<Number(current)>> \o rest.value)

\* builtins.rs: range, the while loop
RECURSIVE RangeSequence(_, _, _, _)
RangeSequence(current, finish, step, fuel) ==
    IF ~NumberLt(current, finish) THEN Ok(<<>>)
    ELSE IF fuel = 0 THEN Err(OutOfFuel)
    ELSE LET rest == RangeSequence(Plus(current, step), finish, step, fuel - 1)
         IN  IF rest.tag = "Err" THEN rest
             ELSE Ok(<<Number(current)>> \o rest.value)

\* ast.rs: the traits Evaluable and Executable.  A node's evaluate or execute
\* reaches those of the nodes below it through the trait, and here through
\* Dispatch.
RECURSIVE Dispatch(_, _, _)
Evaluate(e, w, fuel) == Dispatch([method |-> "evaluate", of |-> e], w, fuel)
EvaluateAll(list, w, fuel) == Dispatch([method |-> "evaluate_all", of |-> list], w, fuel)
Execute(s, w, fuel) == Dispatch([method |-> "execute", of |-> s], w, fuel)
Block_execute(statements, w, fuel) ==
    Dispatch([method |-> "block_execute", of |-> statements], w, fuel)

RECURSIVE builtins_print(_, _, _, _)
RECURSIVE ConditionalNode_paths(_, _, _, _)
RECURSIVE WhileLoopNode_loop(_, _, _)
RECURSIVE ForLoopNode_loop(_, _, _, _)

\* ast.rs: ListNode::evaluate, the loop over the elements; also the loop
\* over the arguments of a call (ast.rs:285-288)
ListNode_evaluate_elements(list, w, fuel) ==
    IF list = <<>> THEN Outcome(w, Ok(<<>>))
    ELSE LET first == Evaluate(list[1], w, fuel)
         IN  IF IsErr(first) THEN first
             ELSE LET rest == EvaluateAll(Tail(list), first.w, fuel)
                  IN  IF IsErr(rest) THEN rest
                      ELSE Outcome(rest.w, Ok(<<first.res.value>> \o rest.res.value))

\* builtins.rs: print, println, printerr, printlnerr, without the final
\* newline of the ln forms
builtins_print(args, w, fuel, stream) ==
    IF args = <<>> THEN Outcome(w, Ok(EmptyList))
    ELSE LET r == Evaluate(args[1], w, fuel)
         IN  IF IsErr(r) THEN r
             ELSE builtins_print(Tail(args),
                                 Write(r.w, stream, coerce_to_string(r.res.value)),
                                 fuel, stream)

builtins_println(args, w, fuel, stream) ==
    LET r == builtins_print(args, w, fuel, stream)
    IN  IF IsErr(r) THEN r ELSE Outcome(Write(r.w, stream, <<"\n">>), r.res)

\* builtins.rs: range
builtins_range(args, w, fuel) ==
    LET num_args == Len(args)
    IN  IF num_args = 0 \/ num_args > 3
        THEN Outcome(w, Err(SignatureError(T_arnge, 3, num_args)))
        ELSE
        LET finish == Evaluate(args[num_args], w, fuel)
        IN  IF IsErr(finish) THEN finish
            ELSE
            LET start == IF num_args = 1 THEN Outcome(finish.w, Ok(Number(0)))
                         ELSE Evaluate(args[1], finish.w, fuel)
            IN  IF IsErr(start) THEN start
                ELSE
                LET step == IF num_args = 3 THEN Evaluate(args[2], start.w, fuel)
                            ELSE Outcome(start.w, Ok(Number(1)))
                IN  IF IsErr(step) THEN step
                    ELSE
                    LET sequence == RangeSequence(coerce_to_number(start.res.value),
                                                  coerce_to_number(finish.res.value),
                                                  coerce_to_number(step.res.value),
                                                  fuel)
                    IN  IF sequence.tag = "Err" THEN Outcome(step.w, sequence)
                        ELSE Outcome(step.w, Ok(List(sequence.value)))

\* ast.rs:290-292: the parameters are set one by one with set_variable
RECURSIVE BindParameters(_, _, _)
BindParameters(params, values, st) ==
    IF params = <<>> \/ values = <<>> THEN st
    ELSE BindParameters(Tail(params), Tail(values),
                        set_variable(st, params[1], values[1]))

\* a call that evaluated its arguments before it counted them
UserFunctionCall_counting_late(e, definition, w, fuel) ==
    LET values == EvaluateAll(e.args, w, fuel)
    IN  IF IsErr(values) THEN values
        ELSE IF Len(e.args) # Len(definition.parameters)
             THEN Outcome(values.w, Err(SignatureError(e.name, Len(definition.parameters),
                                                       Len(e.args))))
        ELSE IF fuel = 0 THEN Outcome(values.w, Err(OutOfFuel))
        ELSE LET body == Block_execute(definition.block,
                                       WithStack(values.w,
                                                 BindParameters(definition.parameters,
                                                                values.res.value,
                                                                values.w.stack)),
                                       fuel - 1)
             IN  Outcome(WithStack(body.w, end_scope(body.w.stack)),
                         IF ~IsErr(body) THEN Ok(EmptyList)
                         ELSE IF body.res.error.kind = "Return"
                              THEN Ok(body.res.error.value)
                              ELSE body.res)

\* a call whose body saw the scope of the program and its own, and none of
\* the scopes of its callers
UserFunctionCall_resolving_statically(e, definition, w, fuel) ==
    LET num_params == Len(definition.parameters)
    IN  IF Len(e.args) # num_params
        THEN Outcome(w, Err(SignatureError(e.name, num_params, Len(e.args))))
        ELSE
        LET values == EvaluateAll(e.args, w, fuel)
        IN  IF IsErr(values) THEN values
            ELSE IF fuel = 0 THEN Outcome(values.w, Err(OutOfFuel))
            ELSE
            LET bound == BindParameters(definition.parameters, values.res.value,
                                        <<values.w.stack[1], Scope_new>>)
                body == Block_execute(definition.block, WithStack(values.w, bound),
                                      fuel - 1)
                return_value ==
                    IF ~IsErr(body) THEN Ok(EmptyList)
                    ELSE IF body.res.error.kind = "Return"
                         THEN Ok(body.res.error.value)
                         ELSE body.res
            IN  Outcome(WithStack(body.w,
                                  end_scope([values.w.stack EXCEPT
                                                ![1] = body.w.stack[1]])),
                        return_value)

\* ast.rs: FunctionCallNode::evaluate, the user function found
UserFunctionCall(e, definition, w, fuel) ==
    LET num_params == Len(definition.parameters)
    IN  IF Len(e.args) # num_params
        THEN Outcome(w, Err(SignatureError(e.name, num_params, Len(e.args))))
        ELSE
        LET values == EvaluateAll(e.args, w, fuel)
        IN  IF IsErr(values) THEN values
            ELSE IF fuel = 0 THEN Outcome(values.w, Err(OutOfFuel))
            ELSE
            LET bound == BindParameters(definition.parameters, values.res.value,
                                        values.w.stack)
                body == Block_execute(definition.block, WithStack(values.w, bound),
                                      fuel - 1)
                return_value ==
                    IF ~IsErr(body) THEN Ok(EmptyList)
                    ELSE IF body.res.error.kind = "Return"
                         THEN Ok(body.res.error.value)
                         ELSE body.res
            IN  Outcome(WithStack(body.w, end_scope(body.w.stack)), return_value)

\* a call that looked among the builtins before the definitions
FunctionCallNode_evaluate_builtins_first(e, w, fuel) ==
    CASE e.name = T_pront ->
            builtins_print(e.args, WithStack(w, begin_scope(w.stack)), fuel, "stdout")
      [] e.name = T_prointl ->
            builtins_println(e.args, WithStack(w, begin_scope(w.stack)), fuel, "stdout")
      [] e.name = T_pritner ->
            builtins_print(e.args, WithStack(w, begin_scope(w.stack)), fuel, "stderr")
      [] e.name = T_rpintnlwr ->
            builtins_println(e.args, WithStack(w, begin_scope(w.stack)), fuel, "stderr")
      [] e.name = T_inptu -> builtins_input(WithStack(w, begin_scope(w.stack)))
      [] e.name = T_arnge ->
            builtins_range(e.args, WithStack(w, begin_scope(w.stack)), fuel)
      [] OTHER ->
            IF get_function_definition(begin_scope(w.stack), e.name).tag = "Err"
            THEN Outcome(WithStack(w, begin_scope(w.stack)),
                         get_function_definition(begin_scope(w.stack), e.name))
            ELSE UserFunctionCall(e, get_function_definition(begin_scope(w.stack),
                                                             e.name).value,
                                  WithStack(w, begin_scope(w.stack)), fuel)

\* ast.rs: FunctionCallNode::evaluate
FunctionCallNode_evaluate(e, w, fuel) ==
    LET entered == WithStack(w, begin_scope(w.stack))
        definition == get_function_definition(entered.stack, e.name)
    IN  IF definition.tag = "Err"
        THEN CASE e.name = T_pront -> builtins_print(e.args, entered, fuel, "stdout")
               [] e.name = T_prointl -> builtins_println(e.args, entered, fuel, "stdout")
               [] e.name = T_pritner -> builtins_print(e.args, entered, fuel, "stderr")
               [] e.name = T_rpintnlwr -> builtins_println(e.args, entered, fuel, "stderr")
               [] e.name = T_inptu -> builtins_input(entered)
               [] e.name = T_arnge -> builtins_range(e.args, entered, fuel)
               [] OTHER -> Outcome(entered, definition)
        ELSE UserFunctionCall(e, definition.value, entered, fuel)

\* ast.rs: impl Evaluable for ExpressionNode and for each node
ExpressionNode_evaluate(e, w, fuel) ==
    CASE e.node = "Constant" -> Outcome(w, Ok(e.value))
      [] e.node = "List" ->
            LET r == EvaluateAll(e.list, w, fuel)
            IN  IF IsErr(r) THEN r ELSE Outcome(r.w, Ok(List(r.res.value)))
      [] e.node = "Operator" ->
            LET lhs == Evaluate(e.lhs, w, fuel)
            IN  IF IsErr(lhs) THEN lhs
                ELSE LET rhs == Evaluate(e.rhs, lhs.w, fuel)
                     IN  IF IsErr(rhs) THEN rhs
                         ELSE Outcome(rhs.w, Ok(ApplyOperator(e.operator,
                                                 lhs.res.value, rhs.res.value)))
      [] e.node = "Variable" -> Outcome(w, get_variable(w.stack, e.name))
      [] e.node = "FunctionCall" -> FunctionCallNode_evaluate(e, w, fuel)

\* ast.rs: impl Executable for Block
Block_execute_statements(statements, w, fuel) ==
    IF statements = <<>> THEN Outcome(w, OkUnit)
    ELSE LET first == Execute(statements[1], w, fuel)
         IN  IF IsErr(first) THEN first
             ELSE Block_execute(Tail(statements), first.w, fuel)

\* ast.rs: Block::execute_in_new_scope
Block_execute_in_new_scope(statements, w, fuel) ==
    LET r == Block_execute(statements, WithStack(w, begin_scope(w.stack)), fuel)
    IN  IF IsErr(r) THEN r
        ELSE Outcome(WithStack(r.w, end_scope(r.w.stack)), OkUnit)

\* a conditional that went on to the later paths after the block of a true
\* condition
RECURSIVE ConditionalNode_paths_going_on(_, _, _, _)
ConditionalNode_paths_going_on(s, i, w, fuel) ==
    IF i > Len(s.conditional_paths)
    THEN Outcome(w, OkUnit)
    ELSE LET condition == Evaluate(s.conditional_paths[i].condition, w, fuel)
         IN  IF IsErr(condition) THEN condition
             ELSE IF coerce_to_bool(condition.res.value)
                  THEN LET path == Block_execute_in_new_scope(s.conditional_paths[i].block,
                                                              condition.w, fuel)
                       IN  IF IsErr(path) THEN path
                           ELSE ConditionalNode_paths_going_on(s, i + 1, path.w, fuel)
                  ELSE ConditionalNode_paths(s, i + 1, condition.w, fuel)

\* ast.rs: ConditionalNode::execute, from the path at index i on
ConditionalNode_paths(s, i, w, fuel) ==
    IF i > Len(s.conditional_paths)
    THEN IF s.else_block # <<>>
         THEN Block_execute_in_new_scope(s.else_block[1], w, fuel)
         ELSE Outcome(w, OkUnit)
    ELSE LET condition == Evaluate(s.conditional_paths[i].condition, w, fuel)
         IN  IF IsErr(condition) THEN condition
             ELSE IF coerce_to_bool(condition.res.value)
                  THEN Block_execute_in_new_scope(s.conditional_paths[i].block,
                                                  condition.w, fuel)
                  ELSE ConditionalNode_paths(s, i + 1, condition.w, fuel)

\* a while loop that took a Return of its body for a Break
RECURSIVE WhileLoopNode_loop_catching_return(_, _, _)
WhileLoopNode_loop_catching_return(s, w, fuel) ==
    LET condition == Evaluate(s.condition, w, fuel)
    IN  IF IsErr(condition) THEN condition
        ELSE IF ~coerce_to_bool(condition.res.value)
             THEN Outcome(WithStack(condition.w, end_scope(condition.w.stack)), OkUnit)
        ELSE IF fuel = 0 THEN Outcome(condition.w, Err(OutOfFuel))
        ELSE LET body == Block_execute(s.block, condition.w, fuel - 1)
             IN  IF ~IsErr(body) \/ body.res.error.kind = "Continue"
                 THEN WhileLoopNode_loop_catching_return(s, body.w, fuel - 1)
                 ELSE IF body.res.error.kind \in {"Break", "Return"}
                      THEN Outcome(WithStack(body.w, end_scope(body.w.stack)), OkUnit)
                 ELSE body

\* a while loop that took a Continue of its body for a Break
RECURSIVE WhileLoopNode_loop_ending_on_continue(_, _, _)
WhileLoopNode_loop_ending_on_continue(s, w, fuel) ==
    LET condition == Evaluate(s.condition, w, fuel)
    IN  IF IsErr(condition) THEN condition
        ELSE IF ~coerce_to_bool(condition.res.value)
             THEN Outcome(WithStack(condition.w, end_scope(condition.w.stack)), OkUnit)
        ELSE IF fuel = 0 THEN Outcome(condition.w, Err(OutOfFuel))
        ELSE LET body == Block_execute(s.block, condition.w, fuel - 1)
             IN  IF ~IsErr(body)
                 THEN WhileLoopNode_loop_ending_on_continue(s, body.w, fuel - 1)
                 ELSE IF body.res.error.kind \in {"Break", "Continue"}
                      THEN Outcome(WithStack(body.w, end_scope(body.w.stack)), OkUnit)
                 ELSE body

\* ast.rs: WhileLoopNode::execute, the while loop and the end_scope after it
WhileLoopNode_loop(s, w, fuel) ==
    LET condition == Evaluate(s.condition, w, fuel)
    IN  IF IsErr(condition) THEN condition
        ELSE IF ~coerce_to_bool(condition.res.value)
             THEN Outcome(WithStack(condition.w, end_scope(condition.w.stack)), OkUnit)
        ELSE IF fuel = 0 THEN Outcome(condition.w, Err(OutOfFuel))
        ELSE LET body == Block_execute(s.block, condition.w, fuel - 1)
             IN  IF ~IsErr(body) THEN WhileLoopNode_loop(s, body.w, fuel - 1)
                 ELSE IF body.res.error.kind = "Continue"
                      THEN WhileLoopNode_loop(s, body.w, fuel - 1)
                 ELSE IF body.res.error.kind = "Break"
                      THEN Outcome(WithStack(body.w, end_scope(body.w.stack)), OkUnit)
                 ELSE body

\* a for loop that took a Continue of its body for a Break
RECURSIVE ForLoopNode_loop_ending_on_continue(_, _, _, _)
ForLoopNode_loop_ending_on_continue(s, iterable, i, w_fuel) ==
    IF i > Len(iterable)
    THEN Outcome(WithStack(w_fuel[1], end_scope(w_fuel[1].stack)), OkUnit)
    ELSE LET body == Block_execute(s.block,
                                   WithStack(w_fuel[1],
                                             set_variable(w_fuel[1].stack,
                                                          s.loop_variable, iterable[i])),
                                   w_fuel[2])
         IN  IF ~IsErr(body)
             THEN ForLoopNode_loop_ending_on_continue(s, iterable, i + 1,
                                                      <<body.w, w_fuel[2]>>)
             ELSE IF body.res.error.kind \in {"Break", "Continue"}
                  THEN Outcome(WithStack(body.w, end_scope(body.w.stack)), OkUnit)
             ELSE body

\* ast.rs: ForLoopNode::execute, the for loop from the element at index i on
\* and the end_scope after it
ForLoopNode_loop(s, iterable, i, w_fuel) ==
    LET w == w_fuel[1]
        fuel == w_fuel[2]
    IN  IF i > Len(iterable)
        THEN Outcome(WithStack(w, end_scope(w.stack)), OkUnit)
        ELSE LET assigned == WithStack(w, set_variable(w.stack, s.loop_variable,
                                                       iterable[i]))
                 body == Block_execute(s.block, assigned, fuel)
             IN  IF ~IsErr(body) THEN ForLoopNode_loop(s, iterable, i + 1, <<body.w, fuel>>)
                 ELSE IF body.res.error.kind = "Continue"
                      THEN ForLoopNode_loop(s, iterable, i + 1, <<body.w, fuel>>)
                 ELSE IF body.res.error.kind = "Break"
                      THEN Outcome(WithStack(body.w, end_scope(body.w.stack)), OkUnit)
                 ELSE body

\* ast.rs: impl Executable for StatementNode and for each node
StatementNode_execute(s, w, fuel) ==
    CASE s.node = "Block" -> Block_execute(s.statements, w, fuel)
      [] s.node = "Assign" ->
            LET value == Evaluate(s.expression, w, fuel)
            IN  IF IsErr(value) THEN value
                ELSE Outcome(WithStack(value.w, set_variable(value.w.stack, s.target,
                                                             value.res.value)),
                             OkUnit)
      [] s.node = "FunctionCall" ->
            LET value == FunctionCallNode_evaluate(s, w, fuel)
            IN  IF IsErr(value) THEN value ELSE Outcome(value.w, OkUnit)
      [] s.node = "Conditional" -> ConditionalNode_paths(s, 1, w, fuel)
      [] s.node = "WhileLoop" ->
            WhileLoopNode_loop(s, WithStack(w, begin_scope(w.stack)), fuel)
      [] s.node = "ForLoop" ->
            LET value == Evaluate(s.iterable, w, fuel)
            IN  IF IsErr(value) THEN value
                ELSE LET iterable == coerce_to_list(value.res.value)
                     IN  IF iterable = <<>> THEN Outcome(value.w, OkUnit)
                         ELSE ForLoopNode_loop(s, iterable, 1,
                                  <<WithStack(value.w, begin_scope(value.w.stack)), fuel>>)
      [] s.node = "Break" -> Outcome(w, Err(BreakError))
      [] s.node = "Continue" -> Outcome(w, Err(ContinueError))
      [] s.node = "Return" ->
            LET value == Evaluate(s.return_value, w, fuel)
            IN  IF IsErr(value) THEN value
                ELSE Outcome(value.w, Err(ReturnError(value.res.value)))
      [] s.node = "FunctionDefinition" ->
            Outcome(WithStack(w, set_function_definition(w.stack, s.name, s)), OkUnit)

Dispatch(call, w, fuel) ==
    CASE call.method = "evaluate" -> ExpressionNode_evaluate(call.of, w, fuel)
      [] call.method = "evaluate_all" -> ListNode_evaluate_elements(call.of, w, fuel)
      [] call.method = "execute" -> StatementNode_execute(call.of, w, fuel)
      [] call.method = "block_execute" -> Block_execute_statements(call.of, w, fuel)

(***************************************************************************)
(* lexer.rs: Token, Position and Lexer.                                    *)
(***************************************************************************)
Position_new(line, start, length) == [line |-> line, start |-> start, length |-> length]

Token_new(kind, text, line, start, length) ==
    [kind |-> kind, text |-> text, position |-> Position_new(line, start, length)]

Lexer_new(source) ==
    [source |-> source, token_vec |-> <<>>, current_line |-> 1, current_column |-> 0,
     current_position |-> 0, current_token_length |-> 0, remaining_source |-> source,
     panicked |-> FALSE]

\* the number of leading characters of s that are in class
RunLength(s, class) ==
    CHOOSE n \in 0..Len(s) :
        /\ \A i \in 1..n : s[i] \in class
        /\ n = Len(s) \/ s[n + 1] \notin class

HasPrefix(s, prefix) ==
    /\ Len(prefix) <= Len(s)
    /\ SubSeq(s, 1, Len(prefix)) = prefix

Drop(s, n) == SubSeq(s, n + 1, Len(s))

Quote == "\""
Apostrophe == "'"
Letters ==
    {"a", "b", "c", "d", "e", "f", "g", "h", "i", "j", "k", "l", "m", "n", "o", "p",
     "q", "r", "s", "t", "u", "v", "w", "x", "y", "z",
     "A", "B", "C", "D", "E", "F", "G", "H", "I", "J", "K", "L", "M", "N", "O", "P",
     "Q", "R", "S", "T", "U", "V", "W", "X", "Y", "Z"}
DigitChars == {"0", "1", "2", "3", "4", "5", "6", "7", "8", "9"}
\* [a-zA-Z_] and [a-zA-Z_0-9]
NameStartChars == Letters \cup {"_"}
NameChars == NameStartChars \cup DigitChars
\* [ \t]
BlankChars == {" ", "\t"}
\* \s, on the characters the sources are written in
SpaceChars == {" ", "\t", "\n", "\r", "\f"}

\* ^[0-9]+(?:\.[0-9]+)? : the length of the match, 0 when there is none
NumberMatch(s) ==
    LET whole == RunLength(s, DigitChars)
        fraction == IF whole + 1 <= Len(s) /\ s[whole + 1] = "."
                    THEN RunLength(Drop(s, whole + 1), DigitChars)
                    ELSE 0
    IN  IF whole = 0 THEN 0
        ELSE IF fraction > 0 THEN whole + 1 + fraction
        ELSE whole

\* ^"+[\S\s]+?"+ : the length of the match, 0 when there is none.  The
\* opening run is taken as long as a match allows: all of the leading quotes
\* when a quote follows the first character after them, and otherwise, from
\* three leading quotes on, the leading quotes alone (one of them read as the
\* content).  The content is as short as possible, the closing run as long
\* as possible.
StringMatch(s) ==
    LET leading == RunLength(s, {Quote})
        closers == { j \in (leading + 2)..Len(s) : s[j] = Quote }
    IN  IF leading = 0 THEN 0
        ELSE IF closers # {}
             THEN LET first == CHOOSE j \in closers : \A k \in closers : j <= k
                  IN  first - 1 + RunLength(Drop(s, first - 1), {Quote})
        ELSE IF leading >= 3 THEN leading
        ELSE 0

\* ^[a-zA-Z_][a-zA-Z_0-9]*
NameMatch(s) ==
    IF s # <<>> /\ s[1] \in NameStartChars THEN RunLength(s, NameChars) ELSE 0

\* ^keyword\s, and ^rtue and ^flase, which have no \s
KeywordMatch(s, word, needs_space) ==
    IF /\ HasPrefix(s, word)
       /\ needs_space => (Len(s) > Len(word) /\ s[Len(word) + 1] \in SpaceChars)
    THEN Len(word)
    ELSE 0

Fixed(kind, text) ==
    [how |-> "fixed", kind |-> kind, text |-> text, needs_space |-> FALSE]
Variable(kind) == [how |-> "variable", kind |-> kind, text |-> <<>>, needs_space |-> FALSE]
Keyword(kind, text, needs_space) ==
    [how |-> "keyword", kind |-> kind, text |-> text, needs_space |-> needs_space]

\* lexer.rs: Lexer::lex, the chain of else-ifs, in its order
Rules ==
    << [how |-> "whitespace", kind |-> "Whitespace", text |-> <<>>, needs_space |-> FALSE],
       [how |-> "newline", kind |-> "Newline", text |-> <<"\n">>, needs_space |-> FALSE],
       Variable("LParen"),
       Variable("RParen"),
       Variable("LBrack"),
       Variable("RBrack"),
       Fixed("Comma", <<",">>),
       Fixed("FullStop", <<".">>),
       Fixed("Plus", <<"+">>),
       Fixed("Minus", <<"-">>),
       Fixed("Mul", <<"*">>),
       Fixed("Div", <<"/">>),
       Fixed("Mod", <<"%">>),
       Fixed("Seq", <<"=", "=", "=">>),
       Fixed("Sne", <<"!", "=", "=">>),
       Fixed("Eq", <<"=", "=">>),
       Fixed("Ne", <<"!", "=">>),
       Fixed("Ge", <<">", "=">>),
       Fixed("Le", <<"<", "=">>),
       Fixed("Gt", <<">">>),
       Fixed("Lt", <<"<">>),
       Fixed("Assign", <<"=">>),
       Keyword("If", <<"f", "i">>, TRUE),
       Keyword("Elif", <<"l", "e", "f", "i">>, TRUE),
       Keyword("Else", <<"s", "e", "l", "e">>, TRUE),
       Keyword("While", <<"w", "h", "i", "t", "l">>, TRUE),
       Keyword("For", <<"f", "i", "r">>, TRUE),
       Keyword("In", <<"n", "i">>, TRUE),
       Keyword("Break", <<"b", "r", "e", "k">>, TRUE),
       Keyword("Continue", <<"c", "n", "o", "t", "i", "n", "e", "u">>, TRUE),
       Keyword("Funcdef", <<"f", "n", "u", "c">>, TRUE),
       Keyword("Return", <<"r", "e", "t", "r", "u", "n">>, TRUE),
       Keyword("BoolTrue", <<"r", "t", "u", "e">>, FALSE),
       Keyword("BoolFalse", <<"f", "l", "a", "s", "e">>, FALSE),
       Variable("Number"),
       [how |-> "fixed", kind |-> "String", text |-> <<Quote, Apostrophe>>, needs_space |-> FALSE],
       [how |-> "fixed", kind |-> "String", text |-> <<Apostrophe, Quote>>, needs_space |-> FALSE],
       Variable("String"),
       Variable("Name") >>

\* Regex::find of the rule's pattern on s: mat.end(), 0 when there is no match
MatchEnd(rule, s) ==
    CASE rule.how = "whitespace" -> RunLength(s, BlankChars)
      [] rule.how = "newline" -> IF HasPrefix(s, rule.text) THEN 1 ELSE 0
      [] rule.how = "fixed" -> IF HasPrefix(s, rule.text) THEN Len(rule.text) ELSE 0
      [] rule.how = "keyword" -> KeywordMatch(s, rule.text, rule.needs_space)
      [] rule.kind = "LParen" -> RunLength(s, {"("})
      [] rule.kind = "RParen" -> RunLength(s, {")"})
      [] rule.kind = "LBrack" -> RunLength(s, {"["})
      [] rule.kind = "RBrack" -> RunLength(s, {"]"})
      [] rule.kind = "Number" -> NumberMatch(s)
      [] rule.kind = "String" -> StringMatch(s)
      [] rule.kind = "Name" -> NameMatch(s)

\* the first rule of the chain that matches, 0 when none does (the panic)
FirstRule(s) ==
    LET matching == { i \in 1..Len(Rules) : MatchEnd(Rules[i], s) > 0 }
    IN  IF matching = {} THEN 0
        ELSE CHOOSE i \in matching : \A j \in matching : i <= j

\* lexer.rs: Lexer::push_token
push_token(lx, token, token_text, length) ==
    [lx EXCEPT !.current_token_length = length,
               !.token_vec = Append(@, Token_new(token, token_text, lx.current_line,
                                                 lx.current_column, length))]

\* positions that moved on while the remaining source stayed as it was
update_positions_keeping_source(lx) ==
    [lx EXCEPT !.current_position = @ + lx.current_token_length,
               !.current_column = @ + lx.current_token_length]

\* lexer.rs: Lexer::update_positions
update_positions(lx) ==
    [lx EXCEPT !.current_position = @ + lx.current_token_length,
               !.current_column = @ + lx.current_token_length,
               !.remaining_source = Drop(lx.source,
                                         lx.current_position + lx.current_token_length)]

\* lexer.rs: Lexer::try_token_fixed_length, the regex having matched
try_token_fixed_length(lx, token, mat, length) == push_token(lx, token, mat, length)

\* lexer.rs: Lexer::try_token_variable_length, the regex having matched
try_token_variable_length(lx, token, mat) == push_token(lx, token, mat, Len(mat))

try_token_keyword_with_space(lx, token, token_text, length) ==
    push_token(lx, token, token_text, length + 1)

\* lexer.rs: Lexer::try_token_keyword, the regex having matched
try_token_keyword(lx, token, token_text, length) ==
    push_token(lx, token, token_text, length)

\* lexer.rs: Lexer::lex, the branch taken for the rule that matched mat
TurnMatched(lx, rule, mat) ==
    CASE rule.how = "whitespace" ->
            update_positions([lx EXCEPT !.current_token_length = Len(mat)])
      [] rule.how = "newline" ->
            update_positions(
                [try_token_fixed_length(lx, "Newline", mat, 1)
                    EXCEPT !.current_line = @ + 1,
                           !.current_column = 0,
                           !.current_token_length = 0,
                           !.current_position = @ + 1])
      [] rule.how = "fixed" ->
            update_positions(try_token_fixed_length(lx, rule.kind, mat, Len(rule.text)))
      [] rule.how = "variable" ->
            update_positions(try_token_variable_length(lx, rule.kind, mat))
      [] rule.how = "keyword" ->
            update_positions(try_token_keyword(lx, rule.kind, rule.text, Len(rule.text)))

TurnByRule(lx, rule) ==
    TurnMatched(lx, rule,
                SubSeq(lx.remaining_source, 1, MatchEnd(rule, lx.remaining_source)))

\* the panic when no rule matches
TurnAt(lx, i) == IF i = 0 THEN [lx EXCEPT !.panicked = TRUE] ELSE TurnByRule(lx, Rules[i])

\* lexer.rs: Lexer::lex, one turn of the while loop
LexTurn(lx) == TurnAt(lx, FirstRule(lx.remaining_source))

\* what a turn from lx to after took from the source: the text of the token
\* it pushed, or the whitespace run it skipped
TakenBetween(lx, after) ==
    IF Len(after.token_vec) > Len(lx.token_vec)
    THEN [token |-> TRUE, kind |-> after.token_vec[Len(after.token_vec)].kind,
          text |-> after.token_vec[Len(after.token_vec)].text]
    ELSE [token |-> FALSE, kind |-> "Whitespace",
          text |-> SubSeq(lx.remaining_source, 1, after.current_token_length)]

Taken(lx) == TakenBetween(lx, LexTurn(lx))

\* "panic" when no rule matches s
HowOf(i) == IF i = 0 THEN "panic" ELSE Rules[i].how
TurnHow(s) == HowOf(FirstRule(s))

Lexing(lx) == ~lx.panicked /\ lx.remaining_source # <<>>

\* lexer.rs: Lexer::lex, the loop run to its end; fuel bounds the turns
RECURSIVE lex(_, _)
lex(lx, fuel) ==
    IF ~Lexing(lx) \/ fuel = 0 THEN lx ELSE lex(LexTurn(lx), fuel - 1)

Lex(source) == lex(Lexer_new(source), Len(source))

(***************************************************************************)
(* parser.rs: Parser.  tokens holds the tokens not yet popped, next first  *)
(* (the Vec is reversed and popped from its end); an Option is a sequence  *)
(* of length 0 or 1.                                                       *)
(***************************************************************************)
Parser_new(tokens) == [tokens |-> tokens, current_token |-> <<>>, previous_token |-> <<>>]

\* error.rs: the error kinds of the parser, with the position of the error
Balance(opener, closer, pos) ==
    [kind |-> "Balance", opener |-> opener, closer |-> closer, pos |-> pos]
UnexpectedToken(token_kind, pos) ==
    [kind |-> "UnexpectedToken", token_kind |-> token_kind, pos |-> pos]
UnexpectedEOF(pos) == [kind |-> "UnexpectedEOF", pos |-> pos]
MissingToken(token_kind, pos) ==
    [kind |-> "MissingToken", token_kind |-> token_kind, pos |-> pos]
MissingExpression(pos) == [kind |-> "MissingExpression", pos |-> pos]
ConsistentIndentation(previous_indentation, pos) ==
    [kind |-> "ConsistentIndentation", previous_indentation |-> previous_indentation,
     pos |-> pos]
\* a panic of the process: unwrap on None
Panic == [kind |-> "Panic"]

\* lexer.rs: Position::one_past
one_past(position) ==
    Position_new(position.line, position.start + position.length, 1)

\* the parser after a call and the Result the call returns
Parsed(p, res) == [p |-> p, res |-> res]
Failed(r) == r.res.tag = "Err"

\* parser.rs: Parser::advance
advance(p) ==
    [tokens |-> IF p.tokens = <<>> THEN <<>> ELSE Tail(p.tokens),
     current_token |-> IF p.tokens = <<>> THEN <<>> ELSE <<Head(p.tokens)>>,
     previous_token |-> p.current_token]

\* n calls of advance, for 1 <= n <= Len(p.tokens)
AdvanceBy(p, n) ==
    [tokens |-> Drop(p.tokens, n),
     current_token |-> <<p.tokens[n]>>,
     previous_token |-> IF n = 1 THEN p.current_token ELSE <<p.tokens[n - 1]>>]

\* Error::new(UnexpectedEOF, Some(self.previous_token.unwrap().position.one_past()))
EOFAfterPrevious(p) ==
    IF p.previous_token = <<>> THEN Parsed(p, Err(Panic))
    ELSE Parsed(p, Err(UnexpectedEOF(<<one_past(p.previous_token[1].position)>>)))

\* parser.rs: Parser::eat_token
eat_token(p, kind) ==
    LET q == advance(p)
    IN  IF q.current_token = <<>> THEN EOFAfterPrevious(q)
        ELSE IF q.current_token[1].kind # kind
             THEN Parsed(q, Err(UnexpectedToken(q.current_token[1].kind,
                                                <<q.current_token[1].position>>)))
             ELSE Parsed(q, Ok(q.current_token[1]))

\* a check that asked the two runs to be of one length
check_wrapper_balance_demanding_balance(p, opener) ==
    IF p.current_token = <<>> THEN Err(Panic)
    ELSE IF Len(opener) # p.current_token[1].position.length
         THEN Err(Balance(opener, p.current_token[1].text,
                          <<p.current_token[1].position>>))
         ELSE OkUnit

\* parser.rs: Parser::check_wrapper_balance
check_wrapper_balance(p, opener) ==
    IF p.current_token = <<>> THEN Err(Panic)
    ELSE IF Len(opener) = p.current_token[1].position.length
         THEN Err(Balance(opener, p.current_token[1].text,
                          <<p.current_token[1].position>>))
         ELSE OkUnit

\* str::parse::<f64> on the text of a Number token without a fraction
RECURSIVE ParseDigits(_)
ParseDigits(text) ==
    IF text = <<>> THEN 0
    ELSE 10 * ParseDigits(SubSeq(text, 1, Len(text) - 1))
         + (CHOOSE d \in 0..9 : Digits[d + 1] = text[Len(text)])

\* the number of trailing characters of s that are in class
TrailingRunLength(s, class) ==
    CHOOSE n \in 0..Len(s) :
        /\ \A i \in (Len(s) - n + 1)..Len(s) : s[i] \in class
        /\ n = Len(s) \/ s[Len(s) - n] \notin class

\* parse_constant, were the closing run left on the text
ParseStringText_keeping_closer(token, total_length, opener_length, string_contents) ==
    IF opener_length = TrailingRunLength(string_contents, {Quote})
    THEN Err(Balance(Repeat(<<Quote>>, opener_length), Repeat(<<Quote>>, opener_length),
                     <<token.position>>))
    ELSE Ok(ConstantNode(String(string_contents)))

\* parser.rs: Parser::parse_constant, the String arm after the empty strings
ParseStringText(token, total_length, opener_length, string_contents) ==
    IF opener_length = TrailingRunLength(string_contents, {Quote})
    THEN Err(Balance(Repeat(<<Quote>>, opener_length),
                     Repeat(<<Quote>>, total_length - opener_length
                            - (Len(string_contents)
                               - TrailingRunLength(string_contents, {Quote}))),
                     <<token.position>>))
    ELSE Ok(ConstantNode(String(
            SubSeq(string_contents, 1,
                   Len(string_contents) - TrailingRunLength(string_contents, {Quote})))))

\* parser.rs: Parser::parse_constant
parse_constant(token) ==
    CASE token.kind = "Number" -> Ok(ConstantNode(Number(ParseDigits(token.text))))
      [] token.kind = "BoolTrue" -> Ok(ConstantNode(Bool(TRUE)))
      [] token.kind = "BoolFalse" -> Ok(ConstantNode(Bool(FALSE)))
      [] token.kind = "String" ->
            IF token.text = <<Quote, Apostrophe>> \/ token.text = <<Apostrophe, Quote>>
            THEN Ok(ConstantNode(String(<<>>)))
            ELSE ParseStringText(token, Len(token.text),
                                 RunLength(token.text, {Quote}),
                                 Drop(token.text, RunLength(token.text, {Quote})))
      [] OTHER -> Err(UnexpectedToken(token.kind, <<token.position>>))

\* ast.rs: Operator::from_token
Operator_from_token(token) ==
    CASE token.kind = "Plus" -> "Add"
      [] token.kind = "Minus" -> "Sub"
      [] OTHER -> token.kind

\* ast.rs: Operator::precedence
precedence(operator) ==
    CASE operator \in {"Seq", "Sne", "Eq", "Ne", "Gt", "Lt", "Ge", "Le"} -> 10
      [] operator \in {"Add", "Sub"} -> 20
      [] operator \in {"Mul", "Div", "Mod"} -> 30

OperatorTokens ==
    {"Plus", "Minus", "Mul", "Div", "Mod", "Seq", "Sne", "Eq", "Ne", "Gt", "Lt", "Ge", "Le"}
ConstantTokens == {"Number", "BoolTrue", "BoolFalse", "String"}

\* parser.rs: parse_expr, the count of open parentheses after the first n of
\* the tokens that follow the opening one
OpenAfter(tokens, n) ==
    1 + Cardinality({ i \in 1..n : tokens[i].kind = "LParen" })
      - Cardinality({ i \in 1..n : tokens[i].kind = "RParen" })

\* the number of tokens up to the one that closes the parenthesis, 0 when
\* the tokens run out first
ClosingIndex(tokens) ==
    LET closed == { n \in 1..Len(tokens) : OpenAfter(tokens, n) = 0 }
    IN  IF closed = {} THEN 0 ELSE CHOOSE n \in closed : \A m \in closed : n <= m

RECURSIVE ParserDispatch(_, _)
\* the methods of Parser that call one another
parse_expr(p, current_operator_precedence) ==
    ParserDispatch([method |-> "parse_expr", arg |-> current_operator_precedence], p)
parse_block(p, indentation_level) ==
    ParserDispatch([method |-> "parse_block", arg |-> indentation_level], p)

\* parser.rs: Parser::parse_expression
parse_expression(p) == parse_expr(p, 0)

\* parser.rs: parse_comma_separated_expressions, after an expression of the
\* list has been parsed and the parser advanced
AfterElement(q, opener, closing_wrapper, list) ==
    IF q.current_token = <<>> THEN EOFAfterPrevious(q)
    ELSE IF q.current_token[1].kind = "Comma"
         THEN Parsed(q, [tag |-> "Continue", value |-> list])
    ELSE IF q.current_token[1].kind = closing_wrapper
         THEN IF check_wrapper_balance(q, opener).tag = "Err"
              THEN Parsed(q, check_wrapper_balance(q, opener))
              ELSE Parsed(q, Ok(ListNode(list)))
    ELSE Parsed(q, Err(UnexpectedToken(q.current_token[1].kind,
                                       <<q.current_token[1].position>>)))

\* parser.rs: parse_comma_separated_expressions, the loop
RECURSIVE ExpressionsLoop(_, _, _, _)
ExpressionsLoop(p, opener, closing_wrapper, list) ==
    LET element == parse_expr(p, 0)
    IN  IF Failed(element) THEN element
        ELSE LET after == AfterElement(advance(element.p), opener, closing_wrapper,
                                       Append(list, element.res.value))
             IN  IF after.res.tag = "Continue"
                 THEN ExpressionsLoop(after.p, opener, closing_wrapper, after.res.value)
                 ELSE after

\* parser.rs: Parser::parse_comma_separated_expressions
parse_comma_separated_expressions(p, opener, closing_wrapper) ==
    IF p.tokens = <<>> THEN EOFAfterPrevious(p)
    ELSE IF Head(p.tokens).kind = closing_wrapper
         THEN IF check_wrapper_balance(advance(p), opener).tag = "Err"
              THEN Parsed(advance(p), check_wrapper_balance(advance(p), opener))
              ELSE Parsed(advance(p), Ok(ListNode(<<>>)))
    ELSE ExpressionsLoop(p, opener, closing_wrapper, <<>>)

\* parser.rs: Parser::parse_list
parse_list(p, opener) == parse_comma_separated_expressions(p, opener, "RBrack")

\* parser.rs: Parser::parse_function_arguments
parse_function_arguments(p, opener) ==
    parse_comma_separated_expressions(p, opener, "RParen")

\* parser.rs: parse_function_parameter_names, after a name has been eaten
\* and the parser advanced
AfterParameter(q, opener, params) ==
    IF q.current_token = <<>> THEN EOFAfterPrevious(q)
    ELSE IF q.current_token[1].kind = "Comma"
         THEN Parsed(q, [tag |-> "Continue", value |-> params])
    ELSE IF q.current_token[1].kind = "RParen"
         THEN IF check_wrapper_balance(q, opener).tag = "Err"
              THEN Parsed(q, check_wrapper_balance(q, opener))
              ELSE Parsed(q, Ok(params))
    ELSE Parsed(q, Err(UnexpectedToken(q.current_token[1].kind,
                                       <<q.current_token[1].position>>)))

\* parser.rs: parse_function_parameter_names, the loop
RECURSIVE ParametersLoop(_, _, _)
ParametersLoop(p, opener, params) ==
    LET name == eat_token(p, "Name")
    IN  IF Failed(name) THEN name
        ELSE LET after == AfterParameter(advance(name.p), opener,
                                         Append(params, name.res.value.text))
             IN  IF after.res.tag = "Continue"
                 THEN ParametersLoop(after.p, opener, after.res.value)
                 ELSE after

\* parser.rs: Parser::parse_function_parameter_names
parse_function_parameter_names(p, opener) ==
    IF p.tokens = <<>> THEN EOFAfterPrevious(p)
    ELSE IF Head(p.tokens).kind = "RParen"
         THEN IF check_wrapper_balance(advance(p), opener).tag = "Err"
              THEN Parsed(advance(p), check_wrapper_balance(advance(p), opener))
              ELSE Parsed(advance(p), Ok(<<>>))
    ELSE ParametersLoop(p, opener, <<>>)

\* parser.rs: parse_expr, the LParen arm once the parser q stands on the
\* closing parenthesis: the balance check, then the enclosed tokens (with the
\* closing one) parsed by a parser of their own
SubExpression(q, lparen_text, sub_expression) ==
    IF check_wrapper_balance(q, lparen_text).tag = "Err"
    THEN Parsed(q, check_wrapper_balance(q, lparen_text))
    ELSE Parsed(q, parse_expr(Parser_new(sub_expression), 0).res)

\* the parser advanced until no token is left: current_token is None and
\* previous_token the last token there was
Exhausted(q) ==
    [tokens |-> <<>>, current_token |-> <<>>,
     previous_token |-> IF q.tokens = <<>> THEN q.current_token
                        ELSE <<q.tokens[Len(q.tokens)]>>]

\* parser.rs: parse_expr, the LParen arm; q is the parser advanced onto the
\* opening parenthesis and n the number of tokens up to the closing one
Parenthesised(q, lparen_text, n) ==
    IF n = 0
    THEN Parsed(Exhausted(q),
                Err(MissingToken("RParen",
                                 <<one_past(Exhausted(q).previous_token[1].position)>>)))
    ELSE SubExpression(AdvanceBy(q, n), lparen_text, SubSeq(q.tokens, 1, n))

\* parser.rs: parse_expr, the Name arm; q is the parser advanced onto the name
NameOrCall(q, name) ==
    IF q.tokens # <<>> /\ Head(q.tokens).kind = "LParen"
    THEN LET arguments == parse_function_arguments(advance(q), Head(q.tokens).text)
         IN  IF Failed(arguments) THEN arguments
             ELSE Parsed(arguments.p,
                         [tag |-> "Return",
                          value |-> FunctionCallNode(name, arguments.res.value.list)])
    ELSE Parsed(q, Ok(VariableNode(name)))

\* parser.rs: parse_expr, the LBrack arm; q is the parser advanced onto the
\* bracket, and the opener handed to parse_list is the text of the token
\* before it
ListLiteral(q) ==
    IF q.previous_token = <<>> THEN Parsed(q, Err(Panic))
    ELSE parse_list(q, q.previous_token[1].text)

\* parser.rs: parse_expr, the operator arm with a left-hand side
OperatorArm(p, token, current_operator_precedence, lhs) ==
    IF precedence(Operator_from_token(token)) > current_operator_precedence
    THEN LET rhs == parse_expr(advance(p), precedence(Operator_from_token(token)))
         IN  IF Failed(rhs) THEN rhs
             ELSE Parsed(rhs.p, Ok(OperatorNode(lhs, rhs.res.value,
                                                Operator_from_token(token))))
    ELSE Parsed(p, [tag |-> "Return", value |-> lhs])

\* parser.rs: parse_expr, one turn of the while loop on the peeked token: Ok
\* carries the new lhs, Return what the function returns at once, Break the
\* end of the loop
ExprArm(p, token, current_operator_precedence, lhs) ==
    CASE token.kind = "LParen" ->
            Parenthesised(advance(p), token.text, ClosingIndex(Tail(p.tokens)))
      [] token.kind \in OperatorTokens ->
            IF lhs = <<>>
            THEN Parsed(p, Err(UnexpectedToken(token.kind, <<token.position>>)))
            ELSE OperatorArm(p, token, current_operator_precedence, lhs[1])
      [] token.kind \in ConstantTokens ->
            Parsed(advance(p), parse_constant(token))
      [] token.kind = "LBrack" -> ListLiteral(advance(p))
      [] token.kind = "Name" -> NameOrCall(advance(p), token.text)
      [] OTHER -> Parsed(p, [tag |-> "Break"])

\* parser.rs: parse_expr, after the loop
ExprEnd(p, lhs) ==
    IF lhs # <<>> THEN Parsed(p, Ok(lhs[1]))
    ELSE IF p.current_token = <<>> THEN Parsed(p, Err(Panic))
    ELSE Parsed(p, Err(MissingExpression(<<one_past(p.current_token[1].position)>>)))

\* parser.rs: Parser::parse_expr, the while loop and what follows it
RECURSIVE ExprLoop(_, _, _)
ExprLoop(p, current_operator_precedence, lhs) ==
    IF p.tokens = <<>> THEN ExprEnd(p, lhs)
    ELSE LET arm == ExprArm(p, Head(p.tokens), current_operator_precedence, lhs)
         IN  CASE arm.res.tag = "Ok" ->
                    ExprLoop(arm.p, current_operator_precedence, <<arm.res.value>>)
               [] arm.res.tag = "Return" -> Parsed(arm.p, Ok(arm.res.value))
               [] arm.res.tag = "Break" -> ExprEnd(arm.p, lhs)
               [] arm.res.tag = "Err" -> arm

\* parser.rs: Parser::parse_expression_and_block
parse_expression_and_block(p, current_indentation_level) ==
    LET expression == parse_expression(p)
        newline == eat_token(expression.p, "Newline")
        block == parse_block(newline.p, current_indentation_level + 1)
    IN  IF Failed(expression) THEN expression
        ELSE IF Failed(newline) THEN newline
        ELSE IF Failed(block) THEN block
        ELSE Parsed(block.p, Ok(ConditionalPath(expression.res.value, block.res.value)))

\* parser.rs: parse_block, the If arm: the else after the paths
ElseBlock(p, indentation_level, conditional_paths) ==
    LET newline == eat_token(advance(p), "Newline")
        block == parse_block(newline.p, indentation_level + 1)
    IN  IF Failed(newline) THEN newline
        ELSE IF Failed(block) THEN block
        ELSE Parsed(block.p, Ok(ConditionalNode(conditional_paths, <<block.res.value>>)))

\* parser.rs: parse_block, the If arm: the loop over the lefi and sele that
\* follow the first path
RECURSIVE ElifLoop(_, _, _)
ElifLoop(p, indentation_level, conditional_paths) ==
    IF p.tokens = <<>> THEN Parsed(p, Ok(ConditionalNode(conditional_paths, <<>>)))
    ELSE IF Head(p.tokens).kind = "Elif"
         THEN LET path == parse_expression_and_block(advance(p), indentation_level)
              IN  IF Failed(path) THEN path
                  ELSE ElifLoop(path.p, indentation_level,
                                Append(conditional_paths, path.res.value))
    ELSE IF Head(p.tokens).kind = "Else"
         THEN ElseBlock(p, indentation_level, conditional_paths)
    ELSE Parsed(p, Ok(ConditionalNode(conditional_paths, <<>>)))

\* parser.rs: parse_block, the If arm
IfArm(p, indentation_level) ==
    LET path == parse_expression_and_block(advance(p), indentation_level)
    IN  IF Failed(path) THEN path
        ELSE ElifLoop(path.p, indentation_level, <<path.res.value>>)

\* parser.rs: parse_block, the Name arm; q is the parser advanced twice
NameArm(q, name) ==
    IF q.current_token = <<>> THEN EOFAfterPrevious(q)
    ELSE IF q.current_token[1].kind = "LParen"
         THEN LET arguments == parse_function_arguments(q, q.current_token[1].text)
              IN  IF Failed(arguments) THEN arguments
                  ELSE Parsed(arguments.p,
                              Ok(FunctionCallNode(name, arguments.res.value.list)))
    ELSE IF q.current_token[1].kind = "Assign"
         THEN LET expression == parse_expression(q)
              IN  IF Failed(expression) THEN expression
                  ELSE Parsed(expression.p, Ok(AssignNode(name, expression.res.value)))
    ELSE Parsed(q, Err(UnexpectedToken(q.current_token[1].kind,
                                       <<q.current_token[1].position>>)))

\* parser.rs: parse_block, the For arm
ForArm(p, indentation_level) ==
    LET loop_variable == eat_token(advance(p), "Name")
        in == eat_token(loop_variable.p, "In")
        iterable == parse_expression(in.p)
        newline == eat_token(iterable.p, "Newline")
        for_block == parse_block(newline.p, indentation_level + 1)
    IN  IF Failed(loop_variable) THEN loop_variable
        ELSE IF Failed(in) THEN in
        ELSE IF Failed(iterable) THEN iterable
        ELSE IF Failed(newline) THEN newline
        ELSE IF Failed(for_block) THEN for_block
        ELSE Parsed(for_block.p,
                    Ok(ForLoopNode(iterable.res.value, loop_variable.res.value.text,
                                   for_block.res.value)))

\* parser.rs: parse_block, the While arm
WhileArm(p, indentation_level) ==
    LET condition == parse_expression(advance(p))
        newline == eat_token(condition.p, "Newline")
        while_block == parse_block(newline.p, indentation_level + 1)
    IN  IF Failed(condition) THEN condition
        ELSE IF Failed(newline) THEN newline
        ELSE IF Failed(while_block) THEN while_block
        ELSE Parsed(while_block.p,
                    Ok(WhileLoopNode(condition.res.value, while_block.res.value)))

\* parser.rs: parse_block, the Return arm
ReturnArm(p) ==
    LET return_value == parse_expression(advance(p))
    IN  IF Failed(return_value) THEN return_value
        ELSE Parsed(return_value.p, Ok(ReturnNode(return_value.res.value)))

\* parser.rs: parse_block, the Funcdef arm: the newline and the block after
\* the parameter list
FuncdefBlock(name, parameters, indentation_level) ==
    IF Failed(parameters) THEN parameters
    ELSE LET newline == eat_token(parameters.p, "Newline")
             function_block == parse_block(newline.p, indentation_level + 1)
         IN  IF Failed(newline) THEN newline
             ELSE IF Failed(function_block) THEN function_block
             ELSE Parsed(function_block.p,
                         Ok(FunctionDefinitionNode(name, parameters.res.value,
                                                   function_block.res.value)))

\* parser.rs: parse_block, the Funcdef arm: the parameter list after the
\* opening parenthesis
FuncdefParameters(name, parentheses_opener, indentation_level) ==
    IF Failed(parentheses_opener) THEN parentheses_opener
    ELSE FuncdefBlock(name,
                      parse_function_parameter_names(parentheses_opener.p,
                                                     parentheses_opener.res.value.text),
                      indentation_level)

\* parser.rs: parse_block, the Funcdef arm
FuncdefArm(p, indentation_level) ==
    LET name == eat_token(advance(p), "Name")
    IN  IF Failed(name) THEN name
        ELSE FuncdefParameters(name.res.value.text, eat_token(name.p, "LParen"),
                               indentation_level)

\* parser.rs: parse_block, the match on the kind of the peeked token: Ok
\* carries the statement to add to the block, Newline the end of a line
StatementArm(p, token, indentation_level) ==
    CASE token.kind = "Name" -> NameArm(advance(advance(p)), token.text)
      [] token.kind = "If" -> IfArm(p, indentation_level)
      [] token.kind = "For" -> ForArm(p, indentation_level)
      [] token.kind = "While" -> WhileArm(p, indentation_level)
      [] token.kind = "Break" -> Parsed(advance(p), Ok(BreakNode))
      [] token.kind = "Continue" -> Parsed(advance(p), Ok(ContinueNode))
      [] token.kind = "Return" -> ReturnArm(p)
      [] token.kind = "Funcdef" -> FuncdefArm(p, indentation_level)
      [] token.kind = "Newline" -> Parsed(advance(p), [tag |-> "Newline"])
      [] OTHER -> Parsed(p, Err(UnexpectedToken(token.kind, <<token.position>>)))

\* parser.rs: Parser::calculate_indentation_level
calculate_indentation_level(start) == start \div 3

\* a check that compared the indentation levels of the two lines
LineStart_comparing_levels(token, indentation_level, previous_indentation) ==
    IF calculate_indentation_level(token.position.start) # indentation_level
    THEN "break"
    ELSE IF calculate_indentation_level(token.position.start)
              = calculate_indentation_level(previous_indentation)
         THEN "error"
    ELSE "statement"

\* parser.rs: parse_block, the check made on the first token of a line: the
\* block ends, the indentation repeats that of the line before, or the line
\* is taken
LineStart(token, indentation_level, previous_indentation) ==
    IF calculate_indentation_level(token.position.start) # indentation_level
    THEN "break"
    ELSE IF token.position.start = previous_indentation THEN "error"
    ELSE "statement"

\* parser.rs: Parser::parse_block, the while loop; lines is the pair of
\* start_of_line and previous_indentation (usize::MAX is written -1)
RECURSIVE BlockLoop(_, _, _, _)
BlockLoop(p, indentation_level, block, lines) ==
    IF p.tokens = <<>> THEN Parsed(p, Ok(block))
    ELSE IF lines.start_of_line
            /\ LineStart(Head(p.tokens), indentation_level,
                         lines.previous_indentation) = "break"
         THEN Parsed(p, Ok(block))
    ELSE IF lines.start_of_line
            /\ LineStart(Head(p.tokens), indentation_level,
                         lines.previous_indentation) = "error"
         THEN Parsed(p, Err(ConsistentIndentation(
                  lines.previous_indentation,
                  <<Position_new(Head(p.tokens).position.line, 0,
                                 Head(p.tokens).position.start)>>)))
    ELSE LET arm == StatementArm(p, Head(p.tokens), indentation_level)
             indentation == IF lines.start_of_line THEN Head(p.tokens).position.start
                            ELSE lines.previous_indentation
         IN  CASE arm.res.tag = "Ok" ->
                    BlockLoop(arm.p, indentation_level, Append(block, arm.res.value),
                              [start_of_line |-> FALSE,
                               previous_indentation |-> indentation])
               [] arm.res.tag = "Newline" ->
                    BlockLoop(arm.p, indentation_level, block,
                              [start_of_line |-> TRUE,
                               previous_indentation |-> indentation])
               [] arm.res.tag = "Err" -> arm

ParserDispatch(call, p) ==
    CASE call.method = "parse_expr" -> ExprLoop(p, call.arg, <<>>)
      [] call.method = "parse_block" ->
            BlockLoop(p, call.arg, <<>>,
                      [start_of_line |-> TRUE, previous_indentation |-> 0 - 1])

\* parser.rs: Parser::parse
parse(p) == parse_block(p, 0)

\* no source has been read: the state of the lexer and parser variables in
\* the specifications that start from a Runtime or a syntax tree
NoSource ==
    /\ lexer = Lexer_new(<<>>)
    /\ consumed = <<>>
    /\ parser = Parser_new(<<>>)

(***************************************************************************)
(* The runtime on its own: the operations of Runtime applied in any order  *)
(* to stacks of at most MaxDepth scopes.  The evaluator ends a scope only  *)
(* after it has begun one, so the bottom scope is never popped.            *)
(***************************************************************************)
RtNames == {T_a, T_b}
RtFunctionNames == {T_a}
RtValues == {Bool(TRUE), Number(3)}
\* runtime.rs tests: generic_function_definition_returning
generic_function_definition_returning(return_value) ==
    FunctionDefinitionNode(<<"t", "e", "s", "t">>, <<>>,
                           <<ReturnNode(ConstantNode(return_value))>>)
RtDefinitions == {generic_function_definition_returning(v) : v \in RtValues}

\* runtime.rs tests: get_variable_takes_uppermost_value builds a stack whose
\* two scopes both bind a; set_variable never produces one, since it writes
\* an existing binding in preference to creating a second one
RtShadowedStack ==
    <<Scope_set_variable(Scope_new, T_a, Bool(FALSE)),
      Scope_set_variable(Scope_new, T_a, Bool(TRUE))>>

IdleIo == [stdout |-> <<>>, stderr |-> <<>>, stdin |-> <<>>]

RtInit ==
    /\ stack \in {Runtime_new, RtShadowedStack}
    /\ last = [op |-> "new"]
    /\ io = IdleIo
    /\ steps = 0
    /\ NoSource

RtBeginScope ==
    /\ Len(stack) < MaxDepth
    /\ stack' = begin_scope(stack)
    /\ last' = [op |-> "begin_scope", before |-> stack]
    /\ UNCHANGED <<io, steps, lexer, consumed, parser>>

RtEndScope ==
    /\ Len(stack) > 1
    /\ stack' = end_scope(stack)
    /\ last' = [op |-> "end_scope", before |-> stack]
    /\ UNCHANGED <<io, steps, lexer, consumed, parser>>

RtSetVariable ==
    \E name \in RtNames, value \in RtValues :
        /\ stack' = set_variable(stack, name, value)
        /\ last' = [op |-> "set_variable", name |-> name, value |-> value,
                    before |-> stack]
        /\ UNCHANGED <<io, steps, lexer, consumed, parser>>

RtGetVariable ==
    \E name \in RtNames :
        /\ last' = [op |-> "get_variable", name |-> name, before |-> stack,
                    result |-> get_variable(stack, name)]
        /\ UNCHANGED <<stack, io, steps, lexer, consumed, parser>>

RtSetFunctionDefinition ==
    \E name \in RtFunctionNames, definition \in RtDefinitions :
        /\ stack' = set_function_definition(stack, name, definition)
        /\ last' = [op |-> "set_function_definition", name |-> name,
                    value |-> definition, before |-> stack]
        /\ UNCHANGED <<io, steps, lexer, consumed, parser>>

RtGetFunctionDefinition ==
    \E name \in RtFunctionNames :
        /\ last' = [op |-> "get_function_definition", name |-> name,
                    before |-> stack,
                    result |-> get_function_definition(stack, name)]
        /\ UNCHANGED <<stack, io, steps, lexer, consumed, parser>>

RtNext ==
    \/ RtBeginScope
    \/ RtEndScope
    \/ RtSetVariable
    \/ RtGetVariable
    \/ RtSetFunctionDefinition
    \/ RtGetFunctionDefinition

SpecRuntime == RtInit /\ [][RtNext]_vars

(***************************************************************************)
(* Claims about the runtime.                                               *)
(***************************************************************************)
BindsVariable(st, i, name) == name \in DOMAIN st[i].variables
BindsFunction(st, i, name) == name \in DOMAIN st[i].functions

\* scope i of after binds the same variables to the same values as scope i
\* of before, except perhaps for name
SameVariablesExcept(before, after, i, name) ==
    /\ (DOMAIN after[i].variables) \ {name} = (DOMAIN before[i].variables) \ {name}
    /\ \A m \in (DOMAIN before[i].variables) \ {name} :
           after[i].variables[m] = before[i].variables[m]

SameFunctionsExcept(before, after, i, name) ==
    /\ (DOMAIN after[i].functions) \ {name} = (DOMAIN before[i].functions) \ {name}
    /\ \A m \in (DOMAIN before[i].functions) \ {name} :
           after[i].functions[m] = before[i].functions[m]

\* the scope set_variable is to write: the top-most scope binding the name,
\* the top scope when none binds it
IsTargetScope(before, i, name) ==
    IF \E j \in 1..Len(before) : BindsVariable(before, j, name)
    THEN /\ BindsVariable(before, i, name)
         /\ \A j \in (i + 1)..Len(before) : ~BindsVariable(before, j, name)
    ELSE i = Len(before)

\* C8: set_variable(name, v) writes v to name's binding in the top-most scope
\* that binds name, or binds name in the top scope when no scope binds it;
\* the depth, every other variable binding and every function binding are
\* left as they were.
C8_SetVariableFrame ==
    last.op = "set_variable" =>
        /\ Len(stack) = Len(last.before)
        /\ \A i \in 1..Len(last.before) :
               /\ stack[i].functions = last.before[i].functions
               /\ SameVariablesExcept(last.before, stack, i, last.name)
               /\ IF IsTargetScope(last.before, i, last.name)
                  THEN /\ BindsVariable(stack, i, last.name)
                       /\ stack[i].variables[last.name] = last.value
                  ELSE stack[i].variables = last.before[i].variables

\* set_variable has dug below a top scope that does not bind the name, past
\* another binding of a different value
C8_Witness ==
    /\ last.op = "set_variable"
    /\ Len(last.before) = 2
    /\ BindsVariable(last.before, 1, last.name)
    /\ ~BindsVariable(last.before, 2, last.name)
    /\ last.before[1].variables[last.name] # last.value
    /\ DOMAIN last.before[2].variables # {}

\* C9: get_variable(name) is the value of the top-most binding of name, the
\* Name(name) error exactly when no scope binds name, and the runtime is
\* left as it was.
C9_GetVariable ==
    last.op = "get_variable" =>
        /\ stack = last.before
        /\ (last.result.tag = "Err") <=>
               (\A i \in 1..Len(stack) : ~BindsVariable(stack, i, last.name))
        /\ last.result.tag = "Err" => last.result.error = NameError(last.name)
        /\ \A i \in 1..Len(stack) :
               ( /\ BindsVariable(stack, i, last.name)
                 /\ \A j \in (i + 1)..Len(stack) : ~BindsVariable(stack, j, last.name) )
               => last.result = Ok(stack[i].variables[last.name])

\* the top scope binds another variable only, and the value found below it is
\* returned
C9_Witness ==
    /\ last.op = "get_variable"
    /\ Len(stack) = 2
    /\ BindsVariable(stack, 1, last.name)
    /\ ~BindsVariable(stack, 2, last.name)
    /\ DOMAIN stack[2].variables # {}
    /\ last.result = Ok(stack[1].variables[last.name])

\* C10: set_function_definition(name, def) binds name to def in the top scope
\* and changes no definition of a lower scope and no variable;
\* get_function_definition(name) is the top-most definition of name, or the
\* Name(name) error when there is none.
C10_FunctionDefinitions ==
    /\ last.op = "set_function_definition" =>
        /\ Len(stack) = Len(last.before)
        /\ BindsFunction(stack, Len(stack), last.name)
        /\ stack[Len(stack)].functions[last.name] = last.value
        /\ SameFunctionsExcept(last.before, stack, Len(stack), last.name)
        /\ \A i \in 1..Len(stack) :
               /\ stack[i].variables = last.before[i].variables
               /\ i < Len(stack) => stack[i].functions = last.before[i].functions
    /\ last.op = "get_function_definition" =>
        /\ (last.result.tag = "Err") <=>
               (\A i \in 1..Len(stack) : ~BindsFunction(stack, i, last.name))
        /\ last.result.tag = "Err" => last.result.error = NameError(last.name)
        /\ \A i \in 1..Len(stack) :
               ( /\ BindsFunction(stack, i, last.name)
                 /\ \A j \in (i + 1)..Len(stack) : ~BindsFunction(stack, j, last.name) )
               => last.result = Ok(stack[i].functions[last.name])

\* a definition was set in an empty top scope above a scope that holds
\* another definition of the same name, and a variable has that name too
C10_Witness ==
    /\ last.op = "set_function_definition"
    /\ Len(last.before) = 2
    /\ BindsFunction(last.before, 1, last.name)
    /\ ~BindsFunction(last.before, 2, last.name)
    /\ last.before[1].functions[last.name] # last.value
    /\ BindsVariable(last.before, 1, last.name)


(***************************************************************************)
(* The evaluator at work: main.rs executes the program's top-level block   *)
(* in a fresh Runtime, statement by statement, and stops at the first      *)
(* error.  Each step executes one statement drawn from a catalogue.        *)
(***************************************************************************)
T_f == <<"f">>
T_g == <<"g">>
T_r == <<"r">>

Lit(n) == ConstantNode(Number(n))

\* fnuc f((a)
\*    retrun a
Def_f == FunctionDefinitionNode(T_f, <<T_a>>, <<ReturnNode(VariableNode(T_a))>>)

\* fnuc r((b)
\*    fi b > 0
\*       r((b - 1)
\*    retrun b
Def_r ==
    FunctionDefinitionNode(T_r, <<T_b>>,
        <<ConditionalNode(
              <<ConditionalPath(OperatorNode(VariableNode(T_b), Lit(0), "Gt"),
                                <<FunctionCallNode(T_r,
                                      <<OperatorNode(VariableNode(T_b), Lit(1), "Sub")>>)>>)>>,
              <<>>),
          ReturnNode(VariableNode(T_b))>>)

\* fnuc g(()
\*    fi rtue
\*       retrun 7
Def_g ==
    FunctionDefinitionNode(T_g, <<>>,
        <<ConditionalNode(<<ConditionalPath(ConstantNode(Bool(TRUE)),
                                            <<ReturnNode(Lit(7))>>)>>, <<>>)>>)

AssignStatements ==
    { AssignNode(T_a, Lit(1)),
      AssignNode(T_a, OperatorNode(VariableNode(T_a), Lit(1), "Add")),
      AssignNode(T_b, FunctionCallNode(T_f, <<Lit(5)>>)),
      AssignNode(T_b, FunctionCallNode(T_inptu, <<>>)) }

FunctionCallStatements ==
    { FunctionCallNode(T_prointl, <<Lit(1)>>),
      FunctionCallNode(T_pront, <<VariableNode(T_a)>>),
      FunctionCallNode(T_pritner, <<FunctionCallNode(T_arnge, <<Lit(2)>>)>>),
      FunctionCallNode(T_rpintnlwr, <<>>),
      FunctionCallNode(T_inptu, <<>>),
      FunctionCallNode(T_arnge, <<>>),
      FunctionCallNode(T_f, <<Lit(5)>>),
      FunctionCallNode(T_f, <<>>),
      FunctionCallNode(T_f, <<VariableNode(T_b)>>),
      FunctionCallNode(T_g, <<>>),
      FunctionCallNode(T_r, <<Lit(2)>>) }

ConditionalStatements ==
    { ConditionalNode(<<ConditionalPath(VariableNode(T_a), <<AssignNode(T_a, Lit(2))>>)>>,
                      <<>>),
      ConditionalNode(<<ConditionalPath(ConstantNode(Bool(FALSE)), <<ContinueNode>>)>>,
                      << <<AssignNode(T_b, Lit(4))>> >>),
      ConditionalNode(<<ConditionalPath(ConstantNode(Bool(TRUE)), <<BreakNode>>)>>,
                      <<>>) }

WhileLoopStatements ==
    { WhileLoopNode(OperatorNode(VariableNode(T_a), Lit(3), "Lt"),
                    <<AssignNode(T_a, OperatorNode(VariableNode(T_a), Lit(1), "Add"))>>),
      WhileLoopNode(ConstantNode(Bool(TRUE)), <<BreakNode>>),
      WhileLoopNode(ConstantNode(Bool(TRUE)), <<ReturnNode(Lit(1))>>) }

ForLoopStatements ==
    { ForLoopNode(ListNode(<<Lit(1), Lit(2)>>), T_b,
                  <<AssignNode(T_a, VariableNode(T_b))>>),
      ForLoopNode(ListNode(<<>>), T_b, <<BreakNode>>),
      ForLoopNode(ListNode(<<Lit(1), Lit(2)>>), T_b, <<ContinueNode>>),
      ForLoopNode(VariableNode(T_a), T_b, <<FunctionCallNode(T_g, <<>>)>>) }

ReturnStatements == { ReturnNode(VariableNode(T_a)) }

FunctionDefinitionStatements == { Def_f, Def_r, Def_g }

\* what read_line can give: a line, a failure, and the end of input after them
StdinLine == [ok |-> TRUE, line |-> <<"5", "\n">>]
StdinFailure == [ok |-> FALSE, line |-> <<>>]
Stdin == <<StdinLine, StdinFailure>>

\* main.rs: Runtime::new() before the program's block is executed
EvalInit ==
    /\ stack = Runtime_new
    /\ io = [IdleIo EXCEPT !.stdin = Stdin]
    /\ steps = 0
    /\ last = [op |-> "new"]
    /\ NoSource

\* ast.rs: Block::execute, one turn of its loop: the statement is executed
\* unless an earlier one has failed
CanExecute ==
    /\ steps < MaxSteps
    /\ ~(last.op = "execute" /\ last.result.tag = "Err")

ExecAssign ==
    /\ CanExecute
    /\ \E s \in AssignStatements :
          LET r == Execute(s, World(stack, io), MaxFuel)
          IN  /\ ~(IsErr(r) /\ r.res.error.kind = "OutOfFuel")
              /\ stack' = r.w.stack
              /\ io' = r.w.io
              /\ last' = [op |-> "execute", statement |-> s, before |-> stack,
                          result |-> r.res]
    /\ steps' = steps + 1
    /\ UNCHANGED <<lexer, consumed, parser>>

ExecFunctionCall ==
    /\ CanExecute
    /\ \E s \in FunctionCallStatements :
          LET r == Execute(s, World(stack, io), MaxFuel)
          IN  /\ ~(IsErr(r) /\ r.res.error.kind = "OutOfFuel")
              /\ stack' = r.w.stack
              /\ io' = r.w.io
              /\ last' = [op |-> "execute", statement |-> s, before |-> stack,
                          result |-> r.res]
    /\ steps' = steps + 1
    /\ UNCHANGED <<lexer, consumed, parser>>

ExecConditional ==
    /\ CanExecute
    /\ \E s \in ConditionalStatements :
          LET r == Execute(s, World(stack, io), MaxFuel)
          IN  /\ ~(IsErr(r) /\ r.res.error.kind = "OutOfFuel")
              /\ stack' = r.w.stack
              /\ io' = r.w.io
              /\ last' = [op |-> "execute", statement |-> s, before |-> stack,
                          result |-> r.res]
    /\ steps' = steps + 1
    /\ UNCHANGED <<lexer, consumed, parser>>

ExecWhileLoop ==
    /\ CanExecute
    /\ \E s \in WhileLoopStatements :
          LET r == Execute(s, World(stack, io), MaxFuel)
          IN  /\ ~(IsErr(r) /\ r.res.error.kind = "OutOfFuel")
              /\ stack' = r.w.stack
              /\ io' = r.w.io
              /\ last' = [op |-> "execute", statement |-> s, before |-> stack,
                          result |-> r.res]
    /\ steps' = steps + 1
    /\ UNCHANGED <<lexer, consumed, parser>>

ExecForLoop ==
    /\ CanExecute
    /\ \E s \in ForLoopStatements :
          LET r == Execute(s, World(stack, io), MaxFuel)
          IN  /\ ~(IsErr(r) /\ r.res.error.kind = "OutOfFuel")
              /\ stack' = r.w.stack
              /\ io' = r.w.io
              /\ last' = [op |-> "execute", statement |-> s, before |-> stack,
                          result |-> r.res]
    /\ steps' = steps + 1
    /\ UNCHANGED <<lexer, consumed, parser>>

ExecBreak ==
    /\ CanExecute
    /\ \E s \in {BreakNode} :
          LET r == Execute(s, World(stack, io), MaxFuel)
          IN  /\ ~(IsErr(r) /\ r.res.error.kind = "OutOfFuel")
              /\ stack' = r.w.stack
              /\ io' = r.w.io
              /\ last' = [op |-> "execute", statement |-> s, before |-> stack,
                          result |-> r.res]
    /\ steps' = steps + 1
    /\ UNCHANGED <<lexer, consumed, parser>>

ExecContinue ==
    /\ CanExecute
    /\ \E s \in {ContinueNode} :
          LET r == Execute(s, World(stack, io), MaxFuel)
          IN  /\ ~(IsErr(r) /\ r.res.error.kind = "OutOfFuel")
              /\ stack' = r.w.stack
              /\ io' = r.w.io
              /\ last' = [op |-> "execute", statement |-> s, before |-> stack,
                          result |-> r.res]
    /\ steps' = steps + 1
    /\ UNCHANGED <<lexer, consumed, parser>>

ExecReturn ==
    /\ CanExecute
    /\ \E s \in ReturnStatements :
          LET r == Execute(s, World(stack, io), MaxFuel)
          IN  /\ ~(IsErr(r) /\ r.res.error.kind = "OutOfFuel")
              /\ stack' = r.w.stack
              /\ io' = r.w.io
              /\ last' = [op |-> "execute", statement |-> s, before |-> stack,
                          result |-> r.res]
    /\ steps' = steps + 1
    /\ UNCHANGED <<lexer, consumed, parser>>

ExecFunctionDefinition ==
    /\ CanExecute
    /\ \E s \in FunctionDefinitionStatements :
          LET r == Execute(s, World(stack, io), MaxFuel)
          IN  /\ ~(IsErr(r) /\ r.res.error.kind = "OutOfFuel")
              /\ stack' = r.w.stack
              /\ io' = r.w.io
              /\ last' = [op |-> "execute", statement |-> s, before |-> stack,
                          result |-> r.res]
    /\ steps' = steps + 1
    /\ UNCHANGED <<lexer, consumed, parser>>

EvalNext ==
    \/ ExecAssign
    \/ ExecFunctionCall
    \/ ExecConditional
    \/ ExecWhileLoop
    \/ ExecForLoop
    \/ ExecBreak
    \/ ExecContinue
    \/ ExecReturn
    \/ ExecFunctionDefinition

SpecEval == EvalInit /\ [][EvalNext]_vars

\* C1: the depth of the scope stack after a statement has run, whether it
\* succeeded, failed, or left by a break, continue or return, is the depth
\* before it.
C1_ScopeDepthRestored ==
    last.op = "execute" => Len(stack) = Len(last.before)

\* the statement just executed was a call of a user-defined function that
\* returned
ReturnedUserCall ==
    /\ last.op = "execute"
    /\ last.statement.node = "FunctionCall"
    /\ last.result.tag = "Ok"
    /\ get_function_definition(last.before, last.statement.name).tag = "Ok"

\* C2: after a call of a user-defined function has returned, every binding
\* that a parameter's name had in the caller's scopes still holds the value
\* it held before the call.
C2_ParameterLeavesCallerBinding ==
    ReturnedUserCall =>
        LET definition == get_function_definition(last.before, last.statement.name).value
        IN  \A k \in 1..Len(definition.parameters) :
              \A i \in 1..Len(last.before) :
                 Scope_has_variable(last.before[i], definition.parameters[k]) =>
                    /\ i <= Len(stack)
                    /\ Scope_has_variable(stack[i], definition.parameters[k])
                    /\ Scope_get_variable(stack[i], definition.parameters[k])
                         = Scope_get_variable(last.before[i], definition.parameters[k])


(***************************************************************************)
(* The lexer at work: Lexer::new on a source, then the turns of the loop   *)
(* of lex.  The sources are the concatenations of up to MaxPieces pieces.  *)
(***************************************************************************)
KeywordTexts == { Rules[i].text : i \in { j \in 1..Len(Rules) : Rules[j].how = "keyword" } }

Pieces ==
    KeywordTexts \cup
    { <<"x">>, <<" ">>, <<"\n">>, <<"(">>, <<")">>, <<"=">>, <<"1">>, <<"!">>,
      <<Quote>>, <<Apostrophe>> }

RECURSIVE Sources(_)
Sources(n) ==
    IF n = 0 THEN { <<>> }
    ELSE Sources(n - 1) \cup { piece \o rest : piece \in Pieces, rest \in Sources(n - 1) }

LexInit ==
    /\ lexer \in { Lexer_new(source) : source \in Sources(MaxPieces) }
    /\ consumed = <<>>
    /\ parser = Parser_new(<<>>)
    /\ stack = Runtime_new
    /\ io = IdleIo
    /\ steps = 0
    /\ last = [op |-> "new"]

\* the branch the next turn takes
TurnIs(how) == Lexing(lexer) /\ TurnHow(lexer.remaining_source) = how

LexWhitespace ==
    /\ TurnIs("whitespace")
    /\ lexer' = LexTurn(lexer)
    /\ consumed' = Append(consumed, Taken(lexer))
    /\ UNCHANGED <<stack, io, steps, last, parser>>

LexNewline ==
    /\ TurnIs("newline")
    /\ lexer' = LexTurn(lexer)
    /\ consumed' = Append(consumed, Taken(lexer))
    /\ UNCHANGED <<stack, io, steps, last, parser>>

LexFixedLength ==
    /\ TurnIs("fixed")
    /\ lexer' = LexTurn(lexer)
    /\ consumed' = Append(consumed, Taken(lexer))
    /\ UNCHANGED <<stack, io, steps, last, parser>>

LexVariableLength ==
    /\ TurnIs("variable")
    /\ lexer' = LexTurn(lexer)
    /\ consumed' = Append(consumed, Taken(lexer))
    /\ UNCHANGED <<stack, io, steps, last, parser>>

LexKeyword ==
    /\ TurnIs("keyword")
    /\ lexer' = LexTurn(lexer)
    /\ consumed' = Append(consumed, Taken(lexer))
    /\ UNCHANGED <<stack, io, steps, last, parser>>

\* lexer.rs:197: no rule matches
LexPanic ==
    /\ TurnIs("panic")
    /\ lexer' = LexTurn(lexer)
    /\ UNCHANGED <<consumed, stack, io, steps, last, parser>>

LexNext ==
    \/ LexWhitespace
    \/ LexNewline
    \/ LexFixedLength
    \/ LexVariableLength
    \/ LexKeyword
    \/ LexPanic

SpecLexer == LexInit /\ [][LexNext]_vars

Flatten(entries) == Concat([i \in 1..Len(entries) |-> entries[i].text])

KeywordKinds ==
    {"If", "Elif", "Else", "While", "For", "In", "Break", "Continue", "Funcdef",
     "Return", "BoolTrue", "BoolFalse"}

\* C5: a keyword token is emitted only where the keyword's letters are
\* followed in the source by a whitespace or newline character (so not
\* before an identifier character and not at the end of the input), and
\* that character is still to be lexed.
C5_KeywordNeedsWhitespace ==
    \A i \in 1..Len(consumed) :
        consumed[i].kind \in KeywordKinds =>
            LET end == Len(Flatten(SubSeq(consumed, 1, i)))
            IN  /\ end < Len(lexer.source)
                /\ lexer.source[end + 1] \in SpaceChars
                /\ i = Len(consumed) => lexer.current_position = end

\* the lexer has read the whole source without a panic
Lexed == ~lexer.panicked /\ lexer.remaining_source = <<>>

\* C6: the token texts, interleaved with the skipped whitespace runs, are at
\* every turn the source read so far, and the whole source once it has been
\* lexed; the token texts among them are those of the token vector.
C6_TextsConcatenateToSource ==
    /\ Flatten(consumed) = SubSeq(lexer.source, 1, lexer.current_position)
    /\ Lexed => Flatten(consumed) = lexer.source
    /\ SelectSeq(consumed, LAMBDA entry : entry.token)
         = [i \in 1..Len(lexer.token_vec) |->
               [token |-> TRUE, kind |-> lexer.token_vec[i].kind,
                text |-> lexer.token_vec[i].text]]

\* a source lexed to its end with a keyword, the whitespace after it and
\* another token
C6_Witness ==
    /\ Lexed
    /\ Len(consumed) >= 3
    /\ \E i \in 1..(Len(consumed) - 1) :
          /\ consumed[i].kind \in KeywordKinds
          /\ ~consumed[i + 1].token
    /\ consumed[Len(consumed)].token


(***************************************************************************)
(* The parser at work: main.rs lexes the source, builds the Parser from    *)
(* the tokens and calls parse; the tests of parser.rs call                 *)
(* parse_expression on a new Parser.  The inputs are flat infix            *)
(* expressions, one-statement programs around a pair of delimiters, and a  *)
(* few programs with blocks.                                               *)
(***************************************************************************)
\* operands: a constant, a variable, a function call, a list literal
Operands ==
    { [text |-> <<"1">>, tree |-> Lit(1)],
      [text |-> <<"a">>, tree |-> VariableNode(T_a)],
      [text |-> <<"f", "(", "(", "2", ")">>, tree |-> FunctionCallNode(T_f, <<Lit(2)>>)],
      [text |-> <<"[", "[", "3", "]">>, tree |-> ListNode(<<Lit(3)>>)] }

\* operators of the three precedence classes, two of them of one class
Operators ==
    { [text |-> <<" ", "+", " ">>, operator |-> "Add"],
      [text |-> <<" ", "-", " ">>, operator |-> "Sub"],
      [text |-> <<" ", "*", " ">>, operator |-> "Mul"],
      [text |-> <<" ", "<", " ">>, operator |-> "Lt"] }

Expressions ==
    UNION { { [entry |-> "expression", operands |-> operands, operators |-> operators]
                : operands \in [1..(n + 1) -> Operands], operators \in [1..n -> Operators] }
            : n \in 0..MaxOperators }

ExpressionSource(input) ==
    input.operands[1].text
    \o Concat([i \in 1..Len(input.operators) |->
                  input.operators[i].text \o input.operands[i + 1].text])

\* the places where the parser matches a pair of delimiters: the text before
\* the opening run, the delimiters, the text between the runs and after them
Contexts ==
    { [context |-> "sub-expression", before |-> <<"a", " ", "=", " ">>,
       opener |-> "(", inside |-> <<"1">>, closer |-> ")", after |-> <<>>],
      [context |-> "list", before |-> <<"a", " ", "=", " ">>,
       opener |-> "[", inside |-> <<"1">>, closer |-> "]", after |-> <<>>],
      [context |-> "empty list", before |-> <<"a", " ", "=", " ">>,
       opener |-> "[", inside |-> <<>>, closer |-> "]", after |-> <<>>],
      [context |-> "call in an expression", before |-> <<"a", " ", "=", " ", "f">>,
       opener |-> "(", inside |-> <<"1">>, closer |-> ")", after |-> <<>>],
      [context |-> "empty call in an expression", before |-> <<"a", " ", "=", " ", "f">>,
       opener |-> "(", inside |-> <<>>, closer |-> ")", after |-> <<>>],
      [context |-> "call statement", before |-> <<"f">>,
       opener |-> "(", inside |-> <<"1">>, closer |-> ")", after |-> <<>>],
      [context |-> "empty call statement", before |-> <<"f">>,
       opener |-> "(", inside |-> <<>>, closer |-> ")", after |-> <<>>],
      [context |-> "parameters", before |-> <<"f", "n", "u", "c", " ", "f">>,
       opener |-> "(", inside |-> <<"a">>, closer |-> ")", after |-> <<"\n">>],
      [context |-> "empty parameters", before |-> <<"f", "n", "u", "c", " ", "f">>,
       opener |-> "(", inside |-> <<>>, closer |-> ")", after |-> <<"\n">>] }

Wrapped ==
    { [entry |-> "wrapped", context |-> c, m |-> m, n |-> n]
        : c \in Contexts, m \in 1..MaxRun, n \in 1..MaxRun }

WrappedSource(input) ==
    input.context.before \o Repeat(<<input.context.opener>>, input.m)
    \o input.context.inside \o Repeat(<<input.context.closer>>, input.n)
    \o input.context.after

\* fi a < 1
\*    brek
\* lefi a
\*    cnotineu
\* sele
\*    retrun a
Program_if ==
    <<"f", "i", " ", "a", " ", "<", " ", "1", "\n",
      " ", " ", " ", "b", "r", "e", "k", " ", "\n",
      "l", "e", "f", "i", " ", "a", "\n",
      " ", " ", " ", "c", "n", "o", "t", "i", "n", "e", "u", " ", "\n",
      "s", "e", "l", "e", " ", "\n",
      " ", " ", " ", "r", "e", "t", "r", "u", "n", " ", "a", "\n">>

\* fir b ni [[1, 2]
\*    a = b
\*  whitl a
\*    a = a - 1
Program_loops ==
    <<"f", "i", "r", " ", "b", " ", "n", "i", " ", "[", "[", "1", ",", " ", "2", "]", "\n",
      " ", " ", " ", "a", " ", "=", " ", "b", "\n",
      " ", "w", "h", "i", "t", "l", " ", "a", "\n",
      " ", " ", " ", "a", " ", "=", " ", "a", " ", "-", " ", "1", "\n">>

\* a = 1
\* b = 2
Program_same_indentation ==
    <<"a", " ", "=", " ", "1", "\n", "b", " ", "=", " ", "2", "\n">>

Programs ==
    { [entry |-> "program", source |-> source]
        : source \in {Program_if, Program_loops, Program_same_indentation} }

\* two statement lines of one block whose first tokens stand at the columns
\* first and second of the block's level: the block is the program or the
\* block of a whitl, the first statement an assignment or a fi with a block,
\* and a blank line of some spaces may stand between the two lines
Lines ==
    { [entry |-> "lines", level |-> level, first |-> first, second |-> second,
       statement |-> statement, blank |-> blank]
        : level \in {0, 1}, first \in {0, 1, 2}, second \in {0, 1, 2},
          statement \in {"assignment", "fi"}, blank \in {<<>>, <<0>>, <<1>>, <<2>>} }

Spaces(n) == Repeat(<<" ">>, n)

\* whitl a                    (when level = 1)
\* a = 1     or    fi a
\*                    a = 2
\*                            (the blank line, if any)
\* b = 2
LinesSource(input) ==
    (IF input.level = 1 THEN <<"w", "h", "i", "t", "l", " ", "a", "\n">> ELSE <<>>)
    \o Spaces(3 * input.level + input.first)
    \o (IF input.statement = "assignment" THEN <<"a", " ", "=", " ", "1", "\n">>
        ELSE <<"f", "i", " ", "a", "\n">> \o Spaces(3 * input.level + 3)
             \o <<"a", " ", "=", " ", "2", "\n">>)
    \o (IF input.blank = <<>> THEN <<>> ELSE Spaces(input.blank[1]) \o <<"\n">>)
    \o Spaces(3 * input.level + input.second)
    \o <<"b", " ", "=", " ", "2", "\n">>

\* the places where an expression is required: after =, after retrun, as the
\* condition of a fi and of a whitl (with the text of the block that follows)
Places ==
    { [place |-> "assignment", before |-> <<"a", " ", "=", " ">>, block |-> <<>>],
      [place |-> "retrun", before |-> <<"r", "e", "t", "r", "u", "n", " ">>,
       block |-> <<>>],
      [place |-> "fi", before |-> <<"f", "i", " ">>,
       block |-> <<" ", " ", " ", "a", " ", "=", " ", "1", "\n">>],
      [place |-> "whitl", before |-> <<"w", "h", "i", "t", "l", " ">>,
       block |-> <<" ", " ", " ", "a", " ", "=", " ", "1", "\n">>] }

\* what stands there with no operand: nothing, a list and an argument list
\* ending after a comma, an operator with nothing to its right, and the
\* empty parenthesised pair with either run the longer
Holes ==
    { [hole |-> "nothing", text |-> <<>>],
      [hole |-> "list", text |-> <<"[", "[", "1", ",", " ", "]">>],
      [hole |-> "arguments", text |-> <<"f", "(", "(", "1", ",", " ", ")">>],
      [hole |-> "operator", text |-> <<"1", " ", "+", " ">>],
      [hole |-> "pair", text |-> <<"(", " ", ")", ")">>],
      [hole |-> "pair after operator",
       text |-> <<"1", " ", "+", " ", "(", "(", " ", ")">>] }

Missing ==
    { [entry |-> "missing", place |-> place, hole |-> hole]
        : place \in Places, hole \in Holes }

MissingSource(input) ==
    input.place.before \o input.hole.text \o <<"\n">> \o input.place.block

\* the header lines of the statements that own a block, with the statements
\* they make of their block
Headers ==
    { [kind |-> "fi", text |-> <<"f", "i", " ", "a", "\n">>],
      [kind |-> "whitl", text |-> <<"w", "h", "i", "t", "l", " ", "a", "\n">>] }

HeaderNode(header, block) ==
    IF header.kind = "fi"
    THEN ConditionalNode(<<ConditionalPath(VariableNode(T_a), block)>>, <<>>)
    ELSE WhileLoopNode(VariableNode(T_a), block)

\* headers nested one in the block of the other at the levels 0, 1, ..., the
\* statement a = 1 in the innermost block, and after it the line b = 2 at a
\* level of one of the headers, offset columns to the right of the header
Dedents ==
    UNION { { [entry |-> "dedent", headers |-> headers, level |-> level,
               offset |-> offset]
                : headers \in [1..d -> Headers], level \in 0..(d - 1),
                  offset \in {1, 2} }
            : d \in 1..MaxDepth }

RECURSIVE DedentLines(_, _)
DedentLines(headers, level) ==
    IF headers = <<>> THEN Spaces(3 * level) \o <<"a", " ", "=", " ", "1", "\n">>
    ELSE Spaces(3 * level) \o headers[1].text \o DedentLines(Tail(headers), level + 1)

\* fi a
\*    whitl a
\*       a = 1
\*  b = 2
DedentSource(input) ==
    DedentLines(input.headers, 0)
    \o Spaces(3 * input.level + input.offset) \o <<"b", " ", "=", " ", "2", "\n">>

\* a fi at level whose block holds a nested statement with a block of its
\* own, a fi or a whitl, followed or not by a simple statement; then, at the
\* level of the first fi, a sele or a lefi with the block b = 2
Attachments ==
    { [entry |-> "attachment", level |-> level, nested |-> nested,
       between |-> between, keyword |-> keyword]
        : level \in {0, 1}, nested \in Headers, between \in BOOLEAN,
          keyword \in {"sele", "lefi"} }

\* whitl a                  (when level = 1)
\* fi a
\*    fi a                  or     whitl a
\*       a = 1
\*     c = 3                (when between)
\* sele                     or     lefi a
\*    b = 2
AttachmentSource(input) ==
    (IF input.level = 1 THEN <<"w", "h", "i", "t", "l", " ", "a", "\n">> ELSE <<>>)
    \o Spaces(3 * input.level) \o <<"f", "i", " ", "a", "\n">>
    \o Spaces(3 * input.level + 3) \o input.nested.text
    \o Spaces(3 * input.level + 6) \o <<"a", " ", "=", " ", "1", "\n">>
    \o (IF input.between
        THEN Spaces(3 * input.level + 4) \o <<"c", " ", "=", " ", "3", "\n">>
        ELSE <<>>)
    \o Spaces(3 * input.level)
    \o (IF input.keyword = "sele" THEN <<"s", "e", "l", "e", " ", "\n">>
        ELSE <<"l", "e", "f", "i", " ", "a", "\n">>)
    \o Spaces(3 * input.level + 3) \o <<"b", " ", "=", " ", "2", "\n">>

\* the header lines of the four statements that own a block
CompoundHeaders ==
    { <<"f", "i", " ", "a", "\n">>,
      <<"w", "h", "i", "t", "l", " ", "a", "\n">>,
      <<"f", "i", "r", " ", "c", " ", "n", "i", " ", "a", "\n">>,
      <<"f", "n", "u", "c", " ", "f", "(", "(", "a", ")", "\n">> }

\* a statement that owns a block, at the column first of the block at level,
\* and after its block a statement of the enclosing block at the column second
Compounds ==
    { [entry |-> "compound", level |-> level, header |-> header, first |-> first,
       second |-> second]
        : level \in {0, 1}, header \in CompoundHeaders, first \in {0, 1, 2},
          second \in {0, 1, 2} }

\* whitl a                    (when level = 1)
\* fir c ni a
\*    a = 2
\* b = 2
CompoundSource(input) ==
    (IF input.level = 1 THEN <<"w", "h", "i", "t", "l", " ", "a", "\n">> ELSE <<>>)
    \o Spaces(3 * input.level + input.first) \o input.header
    \o Spaces(3 * input.level + 3) \o <<"a", " ", "=", " ", "2", "\n">>
    \o Spaces(3 * input.level + input.second) \o <<"b", " ", "=", " ", "2", "\n">>

\* two assignments of the program, the first token of each at any column
\* of the levels 0 to 2
Shifted ==
    { [entry |-> "shifted", first |-> first, second |-> second]
        : first \in {0, 3, 4, 6}, second \in {1, 3, 5, 7} }

\*    a = 1
\*  b = 2
ShiftedSource(input) ==
    Spaces(input.first) \o <<"a", " ", "=", " ", "1", "\n">>
    \o Spaces(input.second) \o <<"b", " ", "=", " ", "2", "\n">>

SourceOf(input) ==
    CASE input.entry = "expression" -> ExpressionSource(input)
      [] input.entry = "lines" -> LinesSource(input)
      [] input.entry = "wrapped" -> WrappedSource(input)
      [] input.entry = "missing" -> MissingSource(input)
      [] input.entry = "dedent" -> DedentSource(input)
      [] input.entry = "shifted" -> ShiftedSource(input)
      [] input.entry = "compound" -> CompoundSource(input)
      [] input.entry = "attachment" -> AttachmentSource(input)
      [] input.entry = "program" -> input.source

\* main.rs: Parser::new(lexer.lex()) on the source of an input
ParseInit ==
    /\ last \in { [op |-> "source", input |-> input]
                    : input \in Expressions \cup Wrapped \cup Programs \cup Lines
                                \cup Missing \cup Dedents \cup Attachments
                                \cup Compounds \cup Shifted }
    /\ parser = Parser_new(Lex(SourceOf(last.input)).token_vec)
    /\ lexer = Lexer_new(<<>>)
    /\ consumed = <<>>
    /\ stack = Runtime_new
    /\ io = IdleIo
    /\ steps = 0

\* parser.rs tests: Parser::new(tokens).parse_expression()
ParseExpression ==
    /\ last.op = "source"
    /\ last.input.entry = "expression"
    /\ LET r == parse_expression(parser)
       IN  /\ parser' = r.p
           /\ last' = [op |-> "parse_expression", input |-> last.input,
                       result |-> r.res]
    /\ UNCHANGED <<stack, io, steps, lexer, consumed>>

\* main.rs: parser.parse()
ParseProgram ==
    /\ last.op = "source"
    /\ last.input.entry \in {"wrapped", "program", "lines", "missing", "dedent",
                            "attachment", "compound", "shifted"}
    /\ LET r == parse(parser)
       IN  /\ parser' = r.p
           /\ last' = [op |-> "parse", input |-> last.input, result |-> r.res]
    /\ UNCHANGED <<stack, io, steps, lexer, consumed>>

ParseNext ==
    \/ ParseExpression
    \/ ParseProgram

SpecParser == ParseInit /\ [][ParseNext]_vars

\* the error the balance rule gives for a pair with runs of m and n
\* characters, at the closing run
BalanceOf(input) ==
    Err(Balance(Repeat(<<input.context.opener>>, input.m),
                Repeat(<<input.context.closer>>, input.n),
                <<Position_new(1,
                               Len(input.context.before) + input.m
                                 + Len(input.context.inside),
                               input.n)>>))

\* C3: wherever the parser matches a pair of delimiters, it returns Balance
\* with the opening and the closing run, positioned at the closing run, when
\* the two runs have the same length, and accepts the pair when they differ.
C3_BalanceRule ==
    (last.op = "parse" /\ last.input.entry = "wrapped") =>
        IF last.input.m = last.input.n
        THEN last.result = BalanceOf(last.input)
        ELSE last.result.tag = "Ok"

\* the tree of the reference grammar for operands joined by operators: the
\* root is the last of the operators of the lowest class
RECURSIVE ReferenceTree(_, _)
ReferenceTree(operands, operators) ==
    IF operators = <<>> THEN operands[1].tree
    ELSE LET lowest == CHOOSE k \in 1..Len(operators) :
                          \A j \in 1..Len(operators) :
                             \/ precedence(operators[k].operator)
                                  < precedence(operators[j].operator)
                             \/ /\ precedence(operators[k].operator)
                                     = precedence(operators[j].operator)
                                /\ j <= k
         IN  OperatorNode(
                 ReferenceTree(SubSeq(operands, 1, lowest),
                               SubSeq(operators, 1, lowest - 1)),
                 ReferenceTree(SubSeq(operands, lowest + 1, Len(operands)),
                               SubSeq(operators, lowest + 1, Len(operators))),
                 operators[lowest].operator)

\* C4: parse_expr(0) on a flat infix expression consumes all of it and
\* returns the tree of the reference grammar.
C4_PrecedenceAndAssociativity ==
    last.op = "parse_expression" =>
        /\ last.result = Ok(ReferenceTree(last.input.operands, last.input.operators))
        /\ parser.tokens = <<>>


(***************************************************************************)
(* parse_constant on its own, as the tests of parser.rs call it: the token *)
(* is the one the lexer makes of a source that is a single constant.       *)
(***************************************************************************)
\* texts that neither begin nor end with a quote or an apostrophe
StringContents ==
    { <<"a">>, <<"a", "b">>, <<"a", " ", "b">>, <<" ">>, <<"1">>, <<"x", "\n">>,
      <<"a", Apostrophe, "b">>, <<"(", ")">>, <<"f", "i", " ", "x">>,
      <<"r", "t", "u", "e">>, <<"=", "=">>, <<"1", "2", "3">> }

Strings ==
    { [entry |-> "string", m |-> m, content |-> content, n |-> n]
        : m \in 1..MaxRun, content \in StringContents, n \in 1..MaxRun }

\* the two empty strings, tokens of quotes only, and constants of other kinds
OtherConstants ==
    { [entry |-> "empty string", source |-> source]
        : source \in {<<Quote, Apostrophe>>, <<Apostrophe, Quote>>} }
    \cup { [entry |-> "quotes", source |-> Repeat(<<Quote>>, k)] : k \in 3..(2 * MaxRun) }
    \cup { [entry |-> "other", source |-> source]
             : source \in {<<"1">>, <<"4", "2">>, <<"r", "t", "u", "e">>,
                           <<"f", "l", "a", "s", "e">>, <<"x">>, <<"+">>} }

ConstantSource(input) ==
    IF input.entry = "string"
    THEN Repeat(<<Quote>>, input.m) \o input.content \o Repeat(<<Quote>>, input.n)
    ELSE input.source

ConstantInit ==
    /\ last \in { [op |-> "token", input |-> input,
                   token |-> Head(Lex(ConstantSource(input)).token_vec)]
                    : input \in Strings \cup OtherConstants }
    /\ last.token.text = ConstantSource(last.input)
    /\ stack = Runtime_new
    /\ io = IdleIo
    /\ steps = 0
    /\ NoSource

\* parser.rs: Parser::parse_constant(&token), the String arm
ParseConstantString ==
    /\ last.op = "token"
    /\ last.token.kind = "String"
    /\ last' = [op |-> "parse_constant", input |-> last.input, token |-> last.token,
                result |-> parse_constant(last.token)]
    /\ UNCHANGED <<stack, io, steps, lexer, consumed, parser>>

\* parser.rs: Parser::parse_constant(&token), the other arms
ParseConstantOther ==
    /\ last.op = "token"
    /\ last.token.kind # "String"
    /\ last' = [op |-> "parse_constant", input |-> last.input, token |-> last.token,
                result |-> parse_constant(last.token)]
    /\ UNCHANGED <<stack, io, steps, lexer, consumed, parser>>

ConstantNext ==
    \/ ParseConstantString
    \/ ParseConstantOther

SpecConstant == ConstantInit /\ [][ConstantNext]_vars

\* C7: parse_constant on a String token gives the empty string for the two
\* digraphs; for a string with a run of m quotes before its text and a run of
\* n quotes after it, Balance with the two runs when m = n, and otherwise the
\* text between the runs and nothing else.  A token of quotes only has a
\* single run and no text.
C7_StringConstant ==
    (last.op = "parse_constant" /\ last.token.kind = "String") =>
        CASE last.input.entry = "empty string" ->
                last.result = Ok(ConstantNode(String(<<>>)))
          [] last.input.entry = "string" ->
                IF last.input.m = last.input.n
                THEN last.result = Err(Balance(Repeat(<<Quote>>, last.input.m),
                                               Repeat(<<Quote>>, last.input.n),
                                               <<last.token.position>>))
                ELSE last.result = Ok(ConstantNode(String(last.input.content)))
          [] last.input.entry = "quotes" ->
                last.result = Ok(ConstantNode(String(<<>>)))

\* a string of several characters between two runs of two quotes each has
\* been refused
C7_Witness ==
    /\ last.op = "parse_constant"
    /\ last.input.entry = "string"
    /\ last.input.m = 2
    /\ last.input.n = 2
    /\ Len(last.input.content) > 1
    /\ last.result.tag = "Err"


(***************************************************************************)
(* Whole programs: main.rs executes the block of a program in a fresh      *)
(* Runtime.  The programs are built around one function call, one loop or  *)
(* one conditional; pront((n) marks on the standard output the statements  *)
(* and expressions that are reached.                                       *)
(***************************************************************************)
T_c == <<"c">>

\* pront((n)
Mark(n) == FunctionCallNode(T_pront, <<Lit(n)>>)

\* the statements a retrun can stand in: the block of a true fi, the sele of
\* a false fi, a whitl, a fir over two elements, and the block of a false fi
Wrapped_in(kind, block) ==
    CASE kind = "fi" ->
            ConditionalNode(<<ConditionalPath(ConstantNode(Bool(TRUE)), block)>>, <<>>)
      [] kind = "sele" ->
            ConditionalNode(<<ConditionalPath(ConstantNode(Bool(FALSE)), <<Mark(8)>>)>>,
                            <<block>>)
      [] kind = "whitl" -> WhileLoopNode(ConstantNode(Bool(TRUE)), block)
      [] kind = "fir" -> ForLoopNode(ListNode(<<Lit(1), Lit(2)>>), T_c, block)
      [] kind = "skipped" ->
            ConditionalNode(<<ConditionalPath(ConstantNode(Bool(FALSE)), block)>>, <<>>)

NestKinds == {"fi", "sele", "whitl", "fir", "skipped"}

\* block inside the statements of kinds, the outermost first, each followed
\* by pront((8)
RECURSIVE Nest(_, _)
Nest(kinds, block) ==
    IF kinds = <<>> THEN block
    ELSE <<Wrapped_in(kinds[1], Nest(Tail(kinds), block)), Mark(8)>>

\* the expressions returned, with their values in a call f((4)
ReturnedExpressions ==
    { [expression |-> Lit(7), value |-> Number(7)],
      [expression |-> OperatorNode(VariableNode(T_a), Lit(1), "Add"),
       value |-> Number(5)] }

ReturningCalls ==
    UNION { { [entry |-> "returning", kinds |-> kinds, e |-> e]
                : kinds \in [1..n -> NestKinds], e \in ReturnedExpressions }
            : n \in 0..MaxNest }

\* fnuc f((a)
\*    pront((1)
\*    ... retrun e, followed by pront((8), inside the statements of kinds
\*    pront((9)
\* b = f((4)
ReturningProgram(input) ==
    <<FunctionDefinitionNode(T_f, <<T_a>>,
          <<Mark(1)>>
          \o Nest(input.kinds, <<ReturnNode(input.e.expression), Mark(8)>>)
          \o <<Mark(9)>>),
      AssignNode(T_b, FunctionCallNode(T_f, <<Lit(4)>>))>>

\* the arguments of a call: one that prints, a constant, and a variable that
\* nothing binds
ArgumentExpressions == {Mark(1), Lit(4), VariableNode(T_b)}

SignatureCalls ==
    UNION { { [entry |-> "signature", parameters |-> SubSeq(<<T_a, T_c>>, 1, p),
               args |-> args]
                : p \in 0..MaxParams, args \in [1..q -> ArgumentExpressions] }
            : q \in 0..(MaxParams + 1) }

\* fnuc f((parameters)
\*    pront((9)
\* f((args)
SignatureProgram(input) ==
    <<FunctionDefinitionNode(T_f, input.parameters, <<Mark(9)>>),
      FunctionCallNode(T_f, input.args)>>

BuiltinNames == {T_pront, T_prointl, T_pritner, T_rpintnlwr, T_inptu, T_arnge}

\* a call of name, where name may be defined at the top of the program, may
\* be defined again inside the block of a fi, and is called inside that block
\* or after it
ResolutionCalls ==
    { [entry |-> "resolution", name |-> name, outer |-> outer, inner |-> inner,
       where |-> where]
        : name \in BuiltinNames \cup {T_g}, outer \in BOOLEAN, inner \in BOOLEAN,
          where \in {"inside", "after"} }

\* fnuc name((a)
\*    pront((2)
\* fi rtue
\*    fnuc name((a)
\*       pront((3)
\*    name((5)
\* name((5)
ResolutionProgram(input) ==
    (IF input.outer THEN <<FunctionDefinitionNode(input.name, <<T_a>>, <<Mark(2)>>)>>
     ELSE <<>>)
    \o <<ConditionalNode(
            <<ConditionalPath(
                ConstantNode(Bool(TRUE)),
                (IF input.inner
                 THEN <<FunctionDefinitionNode(input.name, <<T_a>>, <<Mark(3)>>)>>
                 ELSE <<>>)
                \o (IF input.where = "inside"
                    THEN <<FunctionCallNode(input.name, <<Lit(5)>>)>>
                    ELSE <<>>))>>,
            <<>>)>>
    \o (IF input.where = "after" THEN <<FunctionCallNode(input.name, <<Lit(5)>>)>>
        ELSE <<>>)

\* what a loop body does in the middle: brek, cnotineu, or pront((3)
MiddleStatements == {BreakNode, ContinueNode, Mark(3)}

\* a whitl of n iterations whose body has the middle statement inside
\* conditionals of kinds
WhileLoops ==
    UNION { { [entry |-> "whitl", n |-> n, kinds |-> kinds, middle |-> middle]
                : n \in 0..MaxIterations, kinds \in [1..d -> {"fi", "sele"}],
                  middle \in MiddleStatements }
            : d \in 0..MaxNest }

\* pront((0) + (a < n): prints 0, and is true while a < n
CountedCondition(n) ==
    OperatorNode(Mark(0), OperatorNode(VariableNode(T_a), Lit(n), "Lt"), "Add")

\* a = 0
\* whitl ((pront((0)) + ((a < n)
\*    a = a + 1
\*    pront((1)
\*    ... the middle statement, followed by pront((8), inside the conditionals
\*    pront((2)
\* pront((9)
WhileProgram(input) ==
    <<AssignNode(T_a, Lit(0)),
      WhileLoopNode(CountedCondition(input.n),
          <<AssignNode(T_a, OperatorNode(VariableNode(T_a), Lit(1), "Add")), Mark(1)>>
          \o Nest(input.kinds, <<input.middle, Mark(8)>>)
          \o <<Mark(2)>>),
      Mark(9)>>

\* the values a fir goes over: lists of 0 to MaxIterations numbers, and a
\* number that is no list
IteratedValues ==
    { List([i \in 1..n |-> Number(i)]) : n \in 0..MaxIterations } \cup {Number(5)}

\* a fir over the value of a, read as a or as (pront((0)) + a, whose body may
\* begin by assigning to a and has the middle statement inside conditionals
\* of kinds
ForLoops ==
    UNION { { [entry |-> "fir", value |-> value, printing |-> printing,
               reassign |-> reassign, kinds |-> kinds, middle |-> middle]
                : value \in IteratedValues, printing \in BOOLEAN, reassign \in BOOLEAN,
                  kinds \in [1..d -> {"fi", "sele"}], middle \in MiddleStatements }
            : d \in 0..MaxNest }

\* a = value
\* fir c ni a         or     fir c ni (pront((0)) + a
\*    a = a + 7       (when reassign)
\*    pront((c)
\*    ... the middle statement, followed by pront((8), inside the conditionals
\*    pront((2)
ForProgram(input) ==
    <<AssignNode(T_a, ConstantNode(input.value)),
      ForLoopNode(
          IF input.printing THEN OperatorNode(Mark(0), VariableNode(T_a), "Add")
          ELSE VariableNode(T_a),
          T_c,
          (IF input.reassign
           THEN <<AssignNode(T_a, OperatorNode(VariableNode(T_a), Lit(7), "Add"))>>
           ELSE <<>>)
          \o <<FunctionCallNode(T_pront, <<VariableNode(T_c)>>)>>
          \o Nest(input.kinds, <<input.middle, Mark(8)>>)
          \o <<Mark(2)>>)>>

\* the values the conditions of a conditional come to, after the empty list
\* of pront
ConditionValues == {Bool(TRUE), Bool(FALSE), Number(0), Number(2)}

\* a conditional of 1 to MaxPaths paths, with or without an else block
Conditionals ==
    UNION { { [entry |-> "fi", conditions |-> conditions, else |-> else]
                : conditions \in [1..n -> ConditionValues], else \in BOOLEAN }
            : n \in 1..MaxPaths }

\* fi (pront((1)) + v1
\*    pront((5)
\* lefi (pront((2)) + v2
\*    pront((6)
\* lefi (pront((3)) + v3
\*    pront((7)
\* sele
\*    pront((9)
\* pront((0)
ConditionalProgram(input) ==
    <<ConditionalNode(
          [i \in 1..Len(input.conditions) |->
              ConditionalPath(OperatorNode(Mark(i), ConstantNode(input.conditions[i]),
                                           "Add"),
                              <<Mark(i + 4)>>)],
          IF input.else THEN <<<<Mark(9)>>>> ELSE <<>>),
      Mark(0)>>

\* the arguments of arnge: numbers, and values that are coerced to numbers
RangeArguments ==
    {Number(0 - 1), Number(0), Number(1), Number(2), Number(3), Bool(TRUE),
     List(<<Number(1), Bool(TRUE)>>), String(<<>>)}

\* the calls of arnge with 0 to 3 arguments, and one with 4
RangeCalls ==
    UNION { { [entry |-> "arnge", args |-> args] : args \in [1..n -> RangeArguments] }
            : n \in 0..3 }
    \cup {[entry |-> "arnge", args |-> <<Number(0), Number(1), Number(2), Number(3)>>]}

\* a call of a function whose body meets a brek or a cnotineu in no loop of
\* its own, inside conditionals of kinds; the call is in a whitl or a fir of
\* the caller, or in none
EscapingCalls ==
    UNION { { [entry |-> "escaping", loop |-> loop, sentinel |-> sentinel,
               kinds |-> kinds]
                : loop \in {"whitl", "fir", "none"},
                  sentinel \in {BreakNode, ContinueNode},
                  kinds \in [1..n -> {"fi", "sele"}] }
            : n \in 0..MaxNest }

\* pront((1)
\* f(()
\* pront((2)
AroundCall == <<Mark(1), FunctionCallNode(T_f, <<>>), Mark(2)>>

\* fnuc f(()
\*    ... the brek or cnotineu, followed by pront((8), inside the conditionals
\*    pront((7)
\* a = 0
\* whitl ((pront((0)) + ((a < 2)      or    fir c ni [1, 2]]     or nothing
\*    a = a + 1
\*    pront((1)
\*    f(()
\*    pront((2)
\* pront((9)
EscapingProgram(input) ==
    <<FunctionDefinitionNode(T_f, <<>>,
          Nest(input.kinds, <<input.sentinel, Mark(8)>>) \o <<Mark(7)>>),
      AssignNode(T_a, Lit(0))>>
    \o (CASE input.loop = "whitl" ->
                <<WhileLoopNode(CountedCondition(MaxIterations),
                      <<AssignNode(T_a, OperatorNode(VariableNode(T_a), Lit(1), "Add"))>>
                      \o AroundCall)>>
           [] input.loop = "fir" ->
                <<ForLoopNode(ListNode(<<Lit(1), Lit(2)>>), T_c, AroundCall)>>
           [] input.loop = "none" -> AroundCall)
    \o <<Mark(9)>>

T_x == <<"x">>

\* a function f that reads x, which its call does not bind, and may assign to
\* it; x is bound by the program before or after the definition of f or both,
\* by the function g that calls f, as a variable or as the parameter of g, or
\* by nothing; f is called by the program or by g
DynamicCalls ==
    { [entry |-> "dynamic", binder |-> binder, caller |-> caller, assign |-> assign]
        : binder \in {"none", "before", "after", "rebound"},
          caller \in {"program", "g"}, assign \in BOOLEAN }
    \cup { [entry |-> "dynamic", binder |-> binder, caller |-> "g", assign |-> assign]
             : binder \in {"caller", "parameter"}, assign \in BOOLEAN }

\* x = 1                  (when x is bound before the definition)
\* fnuc f(()
\*    b = x
\*    x = x + 5           (when f assigns)
\*    retrun b
\* x = 2                  (when x is bound after the definition)
\* fnuc g((a)             or  fnuc g((x)
\*    x = 3               (when g binds x)
\*    r = f(()
\*    retrun [[r, x]
\* r = g((4)              or  a = f(() and r = [[a, x]
DynamicProgram(input) ==
    (IF input.binder \in {"before", "rebound"} THEN <<AssignNode(T_x, Lit(1))>>
     ELSE <<>>)
    \o <<FunctionDefinitionNode(T_f, <<>>,
             <<AssignNode(T_b, VariableNode(T_x))>>
             \o (IF input.assign
                 THEN <<AssignNode(T_x, OperatorNode(VariableNode(T_x), Lit(5), "Add"))>>
                 ELSE <<>>)
             \o <<ReturnNode(VariableNode(T_b))>>)>>
    \o (IF input.binder \in {"after", "rebound"} THEN <<AssignNode(T_x, Lit(2))>>
        ELSE <<>>)
    \o (IF input.caller = "g"
        THEN <<FunctionDefinitionNode(T_g,
                   <<IF input.binder = "parameter" THEN T_x ELSE T_a>>,
                   (IF input.binder = "caller" THEN <<AssignNode(T_x, Lit(3))>>
                    ELSE <<>>)
                   \o <<AssignNode(T_r, FunctionCallNode(T_f, <<>>)),
                        ReturnNode(ListNode(<<VariableNode(T_r), VariableNode(T_x)>>))>>),
               AssignNode(T_r, FunctionCallNode(T_g, <<Lit(4)>>))>>
        ELSE <<AssignNode(T_a, FunctionCallNode(T_f, <<>>)),
               AssignNode(T_r, ListNode(<<VariableNode(T_a), VariableNode(T_x)>>))>>)

\* what follows the assignment of x in the branch: nothing, an assignment
\* that reads x, a call of the function g, or a call of a builtin
FollowingStatements ==
    { <<>>,
      <<AssignNode(T_b, OperatorNode(VariableNode(T_x), Lit(1), "Add"))>>,
      <<FunctionCallNode(T_g, <<VariableNode(T_x)>>)>>,
      <<FunctionCallNode(T_pront, <<VariableNode(T_x)>>)>>,
      <<FunctionCallNode(T_prointl, <<VariableNode(T_x)>>)>>,
      <<AssignNode(T_b, FunctionCallNode(T_arnge, <<VariableNode(T_x)>>))>> }

\* a conditional whose executing branch, the block of a true fi or the sele
\* of a false one, is the first to assign to x
BindingConditionals ==
    { [entry |-> "binding", kind |-> kind, value |-> value, following |-> following]
        : kind \in {"fi", "sele"}, value \in {1, 2},
          following \in FollowingStatements }

\* fnuc g((a)
\*    retrun a
\* fi rtue            or    fi flase
\*    x = value                pront((8)
\*    ...                   sele
\*                             x = value
\*                             ...
BindingProgram(input) ==
    <<FunctionDefinitionNode(T_g, <<T_a>>, <<ReturnNode(VariableNode(T_a))>>),
      Wrapped_in(input.kind, <<AssignNode(T_x, Lit(input.value))>> \o input.following)>>

\* a call of a function with the parameter a and the local variable b, whose
\* retrun stands inside conditionals and loops of kinds, or in none
LocalCalls ==
    UNION { { [entry |-> "local", kinds |-> kinds]
                : kinds \in [1..n -> {"fi", "sele", "whitl", "fir"}] }
            : n \in 0..MaxNest }

\* fnuc f((a)
\*    b = a + 1
\*    ... retrun b, inside the statements of kinds
\* r = f((4)
LocalProgram(input) ==
    <<FunctionDefinitionNode(T_f, <<T_a>>,
          <<AssignNode(T_b, OperatorNode(VariableNode(T_a), Lit(1), "Add"))>>
          \o Nest(input.kinds, <<ReturnNode(VariableNode(T_b))>>)),
      AssignNode(T_r, FunctionCallNode(T_f, <<Lit(4)>>))>>

ProgramOf(input) ==
    CASE input.entry = "returning" -> ReturningProgram(input)
      [] input.entry = "escaping" -> EscapingProgram(input)
      [] input.entry = "dynamic" -> DynamicProgram(input)
      [] input.entry = "local" -> LocalProgram(input)
      [] input.entry = "binding" -> BindingProgram(input)
      [] input.entry = "fi" -> ConditionalProgram(input)
      [] input.entry = "fir" -> ForProgram(input)
      [] input.entry = "whitl" -> WhileProgram(input)
      [] input.entry = "resolution" -> ResolutionProgram(input)
      [] input.entry = "signature" -> SignatureProgram(input)

\* main.rs: Runtime::new()
RunInit ==
    /\ stack = Runtime_new
    /\ io = IdleIo
    /\ steps = 0
    /\ last = [op |-> "new"]
    /\ NoSource

\* main.rs: ast.execute(&mut runtime) on a program around a function call
RunCall ==
    /\ last.op = "new"
    /\ \E input \in ReturningCalls \cup SignatureCalls \cup ResolutionCalls
                      \cup EscapingCalls \cup DynamicCalls \cup LocalCalls :
          LET r == Block_execute(ProgramOf(input), World(stack, io), MaxFuel)
          IN  /\ ~(IsErr(r) /\ r.res.error.kind = "OutOfFuel")
              /\ stack' = r.w.stack
              /\ io' = r.w.io
              /\ last' = [op |-> "run", input |-> input, result |-> r.res]
    /\ UNCHANGED <<steps, lexer, consumed, parser>>

\* main.rs: ast.execute(&mut runtime) on a program around a whitl
RunWhileLoop ==
    /\ last.op = "new"
    /\ \E input \in WhileLoops :
          LET r == Block_execute(ProgramOf(input), World(stack, io), MaxFuel)
          IN  /\ ~(IsErr(r) /\ r.res.error.kind = "OutOfFuel")
              /\ stack' = r.w.stack
              /\ io' = r.w.io
              /\ last' = [op |-> "run", input |-> input, result |-> r.res]
    /\ UNCHANGED <<steps, lexer, consumed, parser>>

\* main.rs: ast.execute(&mut runtime) on a program around a fir
RunForLoop ==
    /\ last.op = "new"
    /\ \E input \in ForLoops :
          LET r == Block_execute(ProgramOf(input), World(stack, io), MaxFuel)
          IN  /\ ~(IsErr(r) /\ r.res.error.kind = "OutOfFuel")
              /\ stack' = r.w.stack
              /\ io' = r.w.io
              /\ last' = [op |-> "run", input |-> input, result |-> r.res]
    /\ UNCHANGED <<steps, lexer, consumed, parser>>

\* main.rs: ast.execute(&mut runtime) on a program around a conditional
RunConditional ==
    /\ last.op = "new"
    /\ \E input \in Conditionals \cup BindingConditionals :
          LET r == Block_execute(ProgramOf(input), World(stack, io), MaxFuel)
          IN  /\ ~(IsErr(r) /\ r.res.error.kind = "OutOfFuel")
              /\ stack' = r.w.stack
              /\ io' = r.w.io
              /\ last' = [op |-> "run", input |-> input, result |-> r.res]
    /\ UNCHANGED <<steps, lexer, consumed, parser>>

\* ast.rs: FunctionCallNode::evaluate on a call of arnge with constant
\* arguments
RunRange ==
    /\ last.op = "new"
    /\ \E input \in RangeCalls :
          LET r == Evaluate(FunctionCallNode(T_arnge,
                                             [i \in 1..Len(input.args) |->
                                                 ConstantNode(input.args[i])]),
                            World(stack, io), MaxFuel)
          IN  /\ ~(IsErr(r) /\ r.res.error.kind = "OutOfFuel")
              /\ stack' = r.w.stack
              /\ io' = r.w.io
              /\ last' = [op |-> "run", input |-> input, result |-> r.res]
    /\ UNCHANGED <<steps, lexer, consumed, parser>>

RunNext ==
    \/ RunCall
    \/ RunRange
    \/ RunConditional
    \/ RunForLoop
    \/ RunWhileLoop

SpecRun == RunInit /\ [][RunNext]_vars

\* the retrun of the body is executed: no statement around it is skipped
ReturnReached(input) == \A i \in 1..Len(input.kinds) : input.kinds[i] # "skipped"

\* C11: a call whose body executes retrun e, inside any nest of conditionals
\* and loops, evaluates to the value of e, and no statement of the body after
\* the retrun is executed; a body that ends without a retrun gives the empty
\* list.
C11_ReturnEndsCall ==
    (last.op = "run" /\ last.input.entry = "returning") =>
        /\ last.result = OkUnit
        /\ IF ReturnReached(last.input)
           THEN /\ get_variable(stack, T_b) = Ok(last.input.e.value)
                /\ io.stdout = <<"1">>
           ELSE /\ get_variable(stack, T_b) = Ok(EmptyList)
                /\ io.stdout[Len(io.stdout)] = "9"

\* the retrun stood in a loop inside a loop
C11_Witness ==
    /\ last.op = "run"
    /\ last.input.entry = "returning"
    /\ last.input.kinds = <<"whitl", "fir">>
    /\ get_variable(stack, T_b) = Ok(Number(5))


\* C12: a call of a user function with a number of arguments other than its
\* number of parameters fails with Signature{name, expected = the number of
\* parameters, passed = the number of arguments}; no argument is evaluated,
\* no variable is bound and the body is not executed.
C12_SignatureBeforeArguments ==
    (last.op = "run" /\ last.input.entry = "signature"
       /\ Len(last.input.args) # Len(last.input.parameters)) =>
        /\ last.result = Err(SignatureError(T_f, Len(last.input.parameters),
                                            Len(last.input.args)))
        /\ io.stdout = <<>>
        /\ \A i \in 1..Len(stack) : DOMAIN stack[i].variables = {}

\* one argument too many, and the first of them would have printed
C12_Witness ==
    /\ last.op = "run"
    /\ last.input.entry = "signature"
    /\ Len(last.input.parameters) = 1
    /\ Len(last.input.args) = 2
    /\ last.input.args[1] = Mark(1)
    /\ last.result.tag = "Err"
    /\ last.result.error.kind = "Signature"

\* what the definition that a call of the input finds prints: 3 for the one
\* made in the block, 2 for the one at the top, 0 when none is on the stack
DefinitionFound(input) ==
    IF input.where = "inside" /\ input.inner THEN 3
    ELSE IF input.outer THEN 2
    ELSE 0

\* what the builtin name prints when called with the argument 5
BuiltinOutput(name) ==
    CASE name = T_pront -> [stdout |-> <<"5">>, stderr |-> <<>>, stdin |-> <<>>]
      [] name = T_prointl -> [stdout |-> <<"5", "\n">>, stderr |-> <<>>, stdin |-> <<>>]
      [] name = T_pritner -> [stdout |-> <<>>, stderr |-> <<"5">>, stdin |-> <<>>]
      [] name = T_rpintnlwr -> [stdout |-> <<>>, stderr |-> <<"5", "\n">>, stdin |-> <<>>]
      [] OTHER -> IdleIo

\* C13: a call runs the definition of the top-most scope that defines its
\* name, also when the name is that of a builtin; without a definition on the
\* stack it runs the builtin of that name, and fails with Name(name) when
\* there is none.
C13_DefinitionsBeforeBuiltins ==
    (last.op = "run" /\ last.input.entry = "resolution") =>
        IF DefinitionFound(last.input) # 0
        THEN /\ last.result = OkUnit
             /\ io = [IdleIo EXCEPT !.stdout = <<Digits[DefinitionFound(last.input) + 1]>>]
        ELSE IF last.input.name \in BuiltinNames
             THEN /\ last.result = OkUnit
                  /\ io = BuiltinOutput(last.input.name)
             ELSE /\ last.result = Err(NameError(last.input.name))
                  /\ io = IdleIo

\* prointl is defined twice and the definition of the inner scope has run
C13_Witness ==
    /\ last.op = "run"
    /\ last.input.entry = "resolution"
    /\ last.input.name = T_prointl
    /\ last.input.outer
    /\ last.input.inner
    /\ last.input.where = "inside"
    /\ io.stdout = <<"3">>

\* C14: when the first token of a statement line stands at the column of the
\* first token of the statement line before it in the block, blank lines
\* apart, parsing fails with ConsistentIndentation carrying that column; two
\* lines of the block at different columns are accepted.
C14_ConsistentIndentation ==
    (last.op = "parse" /\ last.input.entry = "lines") =>
        IF last.input.first = last.input.second
        THEN /\ last.result.tag = "Err"
             /\ last.result.error.kind = "ConsistentIndentation"
             /\ last.result.error.previous_indentation
                  = 3 * last.input.level + last.input.first
        ELSE last.result.tag = "Ok"

\* what one whole iteration of the program's loop prints after the condition
WholeIteration(input) ==
    <<"1", "3">> \o Repeat(<<"8">>, Len(input.kinds) + 1) \o <<"2">>

\* what the program of a whitl is to print: 0 at each evaluation of the
\* condition, the marks of the statements executed, 9 after the loop
WhileLoopOutput(input) ==
    CASE input.middle = BreakNode ->
            (IF input.n = 0 THEN <<"0">> ELSE <<"0", "1">>) \o <<"9">>
      [] input.middle = ContinueNode ->
            Repeat(<<"0", "1">>, input.n) \o <<"0", "9">>
      [] OTHER ->
            Repeat(<<"0">> \o WholeIteration(input), input.n) \o <<"0", "9">>

\* C15: a whitl evaluates its condition before every iteration and stops
\* when it is false; a cnotineu in the body, inside any conditionals, drops
\* the rest of the iteration and goes to the next evaluation of the
\* condition; a brek ends the loop, and the statement after the loop runs;
\* neither leaves the loop statement as an error.
C15_WhileLoop ==
    (last.op = "run" /\ last.input.entry = "whitl") =>
        /\ last.result = OkUnit
        /\ io.stdout = WhileLoopOutput(last.input)

\* two iterations were cut short by a cnotineu inside two conditionals
C15_Witness ==
    /\ last.op = "run"
    /\ last.input.entry = "whitl"
    /\ last.input.middle = ContinueNode
    /\ last.input.kinds = <<"fi", "sele">>
    /\ io.stdout = <<"0", "1", "0", "1", "0", "9">>

\* the list a fir of the input goes over
IteratedList(input) ==
    IF input.value.t = "List" THEN input.value.v ELSE <<input.value>>

\* what the body of the input's loop prints for the element
ForIteration(input, element) ==
    NumberToText(element.v)
    \o (IF input.middle = Mark(3)
        THEN <<"3">> \o Repeat(<<"8">>, Len(input.kinds) + 1) \o <<"2">>
        ELSE <<>>)

\* what the program of a fir is to print: 0 when the iterable prints, then
\* the iterations, of which a brek leaves the first only
ForLoopOutput(input) ==
    (IF input.printing THEN <<"0">> ELSE <<>>)
    \o Concat([i \in 1..(IF input.middle = BreakNode /\ IteratedList(input) # <<>>
                         THEN 1 ELSE Len(IteratedList(input))) |->
                  ForIteration(input, IteratedList(input)[i])])

\* C16: a fir evaluates its iterable once and makes a list of the value; for
\* an empty list the body does not run and no scope is pushed; otherwise the
\* body runs once for each element, in order, with the loop variable set to
\* it, a cnotineu going to the next element and a brek ending the loop; what
\* the body assigns to the variable the iterable was read from changes neither
\* the number nor the values of the iterations.
C16_ForLoop ==
    (last.op = "run" /\ last.input.entry = "fir") =>
        /\ last.result = OkUnit
        /\ io.stdout = ForLoopOutput(last.input)
        /\ (IteratedList(last.input) = <<>> /\ ~last.input.printing) =>
               stack = set_variable(Runtime_new, T_a, last.input.value)

\* the body has run for both elements of a list to which it appended each
\* time
C16_Witness ==
    /\ last.op = "run"
    /\ last.input.entry = "fir"
    /\ last.input.reassign
    /\ last.input.printing
    /\ last.input.middle = ContinueNode
    /\ Len(IteratedList(last.input)) = 2
    /\ io.stdout = <<"0", "1", "2">>

\* the indices of the conditions of the input that are truthy
TruthyPaths(input) ==
    {i \in 1..Len(input.conditions) : coerce_to_bool(input.conditions[i])}

\* the index of the first truthy condition, 0 when there is none
FirstTruthy(input) ==
    IF TruthyPaths(input) = {} THEN 0
    ELSE CHOOSE i \in TruthyPaths(input) : \A j \in TruthyPaths(input) : i <= j

\* what the program of a conditional is to print: the conditions up to the
\* first truthy one and its block, or all conditions and the else block
ConditionalOutput(input) ==
    (IF FirstTruthy(input) = 0
     THEN Concat([i \in 1..Len(input.conditions) |-> NumberToText(i)])
          \o (IF input.else THEN <<"9">> ELSE <<>>)
     ELSE Concat([i \in 1..FirstTruthy(input) |-> NumberToText(i)])
          \o NumberToText(FirstTruthy(input) + 4))
    \o <<"0">>

\* C17: a conditional evaluates its conditions in source order and executes
\* the block of the first truthy one only, evaluating no later condition;
\* with no truthy condition it executes the else block if there is one and
\* nothing otherwise.
C17_Conditional ==
    (last.op = "run" /\ last.input.entry = "fi") =>
        /\ last.result = OkUnit
        /\ io.stdout = ConditionalOutput(last.input)

\* the second of three conditions was the first truthy one, and the third
\* was truthy too
C17_Witness ==
    /\ last.op = "run"
    /\ last.input.entry = "fi"
    /\ TruthyPaths(last.input) = {2, 3}
    /\ last.input.else
    /\ io.stdout = <<"1", "2", "6", "0">>

(***************************************************************************)
(* value.rs: Value::modulus and the format strings.  A panic of the        *)
(* program (a slice or an index out of range) is the error Panic.          *)
(***************************************************************************)
MaxFormat == 4
MaxValues == 2

IncorrectNumberOfFormatStringArguments(expected, received) ==
    [kind |-> "IncorrectNumberOfFormatStringArguments", expected |-> expected,
     received |-> received]

InvalidFormatFlag(flag, specifier_num) ==
    [kind |-> "InvalidFormatFlag", flag |-> flag, specifier_num |-> specifier_num]

\* str::split('%')
RECURSIVE SplitOnPercent(_)
SplitOnPercent(text) ==
    LET i == FindText(text, <<"%">>)
    IN  IF i = 0 THEN <<text>>
        ELSE <<SubSeq(text, 1, i - 1)>> \o SplitOnPercent(SubSeq(text, i + 1, Len(text)))

\* value.rs:247-254: the count of the windows of two characters that are \%
EscapedPercents(format_string) ==
    Cardinality({i \in 1..(Len(format_string) - 1) :
                    format_string[i] = "\\" /\ format_string[i + 1] = "%"})

FormatFlags == {"n", "o", "s", "l"}

\* value.rs:291-304: the arms of the match on the flag
FormatValue(flag, value) ==
    CASE flag = "n" -> Display(Number(coerce_to_number(value)))
      [] flag = "o" -> Display(Bool(coerce_to_bool(value)))
      [] flag = "s" -> coerce_to_string(value)
      [] flag = "l" -> Display(List(coerce_to_list(value)))

\* the state of the loop before any part
FormatStart == [last_was_not_escape |-> FALSE, num_inserted_so_far |-> 0, result |-> <<>>]

\* value.rs:275-280: first, the part before the % at hand
FormatFirst(result_parts, k, acc) ==
    IF acc.last_was_not_escape THEN Tail(result_parts[k]) ELSE result_parts[k]

\* a loop that emitted nothing for an escaped %
RECURSIVE string_format_loop_dropping_escaped(_, _, _, _)
string_format_loop_dropping_escaped(result_parts, values_to_insert, k, acc) ==
    IF k > Len(result_parts) - 1
    THEN IF ~acc.last_was_not_escape
         THEN Ok(acc.result \o result_parts[Len(result_parts)])
         ELSE IF result_parts[Len(result_parts)] = <<>> THEN Err(Panic)
         ELSE Ok(acc.result \o Tail(result_parts[Len(result_parts)]))
    ELSE IF acc.last_was_not_escape /\ result_parts[k] = <<>> THEN Err(Panic)
    ELSE IF FormatFirst(result_parts, k, acc) # <<>>
            /\ FormatFirst(result_parts, k, acc)[Len(FormatFirst(result_parts, k, acc))]
                   = "\\"
         THEN string_format_loop_dropping_escaped(
                  result_parts, values_to_insert, k + 1,
                  [last_was_not_escape |-> FALSE,
                   num_inserted_so_far |-> acc.num_inserted_so_far,
                   result |-> acc.result
                              \o SubSeq(FormatFirst(result_parts, k, acc), 1,
                                        Len(FormatFirst(result_parts, k, acc)) - 1)])
    ELSE IF result_parts[k + 1] = <<>> THEN Err(Panic)
    ELSE IF result_parts[k + 1][1] \notin FormatFlags
         THEN Err(InvalidFormatFlag(<<result_parts[k + 1][1]>>,
                                    acc.num_inserted_so_far + 1))
    ELSE IF acc.num_inserted_so_far + 1 > Len(values_to_insert) THEN Err(Panic)
    ELSE string_format_loop_dropping_escaped(
             result_parts, values_to_insert, k + 1,
             [last_was_not_escape |-> TRUE,
              num_inserted_so_far |-> acc.num_inserted_so_far + 1,
              result |-> acc.result \o FormatFirst(result_parts, k, acc)
                         \o FormatValue(result_parts[k + 1][1],
                                        values_to_insert[acc.num_inserted_so_far + 1])])

\* value.rs:271-324: the loop over the parts from the pair (k, k + 1) on, and
\* the last part after it.  &second[0..1] and &part[1..] panic on an empty
\* part.
RECURSIVE string_format_loop(_, _, _, _)
string_format_loop(result_parts, values_to_insert, k, acc) ==
    IF k > Len(result_parts) - 1
    THEN IF ~acc.last_was_not_escape
         THEN Ok(acc.result \o result_parts[Len(result_parts)])
         ELSE IF result_parts[Len(result_parts)] = <<>> THEN Err(Panic)
         ELSE Ok(acc.result \o Tail(result_parts[Len(result_parts)]))
    ELSE IF acc.last_was_not_escape /\ result_parts[k] = <<>> THEN Err(Panic)
    ELSE IF FormatFirst(result_parts, k, acc) # <<>>
            /\ FormatFirst(result_parts, k, acc)[Len(FormatFirst(result_parts, k, acc))]
                   = "\\"
         THEN string_format_loop(
                  result_parts, values_to_insert, k + 1,
                  [last_was_not_escape |-> FALSE,
                   num_inserted_so_far |-> acc.num_inserted_so_far,
                   result |-> acc.result
                              \o SubSeq(FormatFirst(result_parts, k, acc), 1,
                                        Len(FormatFirst(result_parts, k, acc)) - 1)
                              \o <<"%">>])
    ELSE IF result_parts[k + 1] = <<>> THEN Err(Panic)
    ELSE IF result_parts[k + 1][1] \notin FormatFlags
         THEN Err(InvalidFormatFlag(<<result_parts[k + 1][1]>>,
                                    acc.num_inserted_so_far + 1))
    ELSE IF acc.num_inserted_so_far + 1 > Len(values_to_insert) THEN Err(Panic)
    ELSE string_format_loop(
             result_parts, values_to_insert, k + 1,
             [last_was_not_escape |-> TRUE,
              num_inserted_so_far |-> acc.num_inserted_so_far + 1,
              result |-> acc.result \o FormatFirst(result_parts, k, acc)
                         \o FormatValue(result_parts[k + 1][1],
                                        values_to_insert[acc.num_inserted_so_far + 1])])

\* value.rs: Value::string_format
string_format(format_string, values_to_insert) ==
    LET result_parts == SplitOnPercent(format_string)
        num_non_escaped_percentage_signs ==
            Len(result_parts) - 1 - EscapedPercents(format_string)
    IN  IF Len(result_parts) = 1 THEN Ok(result_parts[1])
        ELSE IF num_non_escaped_percentage_signs # Len(values_to_insert)
             THEN Err(IncorrectNumberOfFormatStringArguments(
                          num_non_escaped_percentage_signs, Len(values_to_insert)))
        ELSE string_format_loop(result_parts, values_to_insert, 1, FormatStart)

\* f64 % on the integers: the remainder has the sign of the dividend, and by
\* zero it is NaN
Remainder(lhs, rhs) ==
    IF IsNaN(lhs) \/ IsNaN(rhs) \/ rhs = 0 THEN NaN
    ELSE IF lhs < 0 THEN 0 - ((0 - lhs) % Abs(rhs))
    ELSE lhs % Abs(rhs)

\* value.rs: Value::modulus
Value_modulus(lhs, rhs) ==
    CASE lhs.t = "Number" -> Ok(Number(Remainder(lhs.v, coerce_to_number(rhs))))
      [] lhs.t = "Bool" -> Ok(Bool(~(lhs.v /\ coerce_to_bool(rhs))))
      [] lhs.t = "String" ->
            LET formatted == string_format(lhs.v, coerce_to_list(rhs))
            IN  IF formatted.tag = "Ok" THEN Ok(String(formatted.value)) ELSE formatted
      [] lhs.t = "List" ->
            Ok(Number(Len(lhs.v) - Cardinality({i \in 1..Len(lhs.v) : lhs.v[i] = rhs})))

(***************************************************************************)
(* The Mod operator on its own: Value::modulus applied once to a left      *)
(* operand and a right operand.                                            *)
(***************************************************************************)
FormatChars == {"%", "\\", "n", "o", "s", "l", "x"}

FormatStrings == UNION { [1..n -> FormatChars] : n \in 0..MaxFormat }

InsertedValues == {Number(1), Bool(FALSE), String(<<"d">>)}

\* the right operands: lists of at most MaxValues values, and the values
RightOperands ==
    { List(l) : l \in UNION { [1..n -> InsertedValues] : n \in 0..MaxValues } }
    \cup InsertedValues

OtherLeftOperands ==
    {Number(7), Number(0 - 7), Bool(TRUE), Bool(FALSE),
     List(<<Number(1), Bool(FALSE), Number(1)>>)}

ModulusInit ==
    /\ last = [op |-> "new"]
    /\ stack = Runtime_new
    /\ io = IdleIo
    /\ steps = 0
    /\ NoSource

\* Value::modulus on a String
ModulusString ==
    /\ last.op = "new"
    /\ \E format_string \in FormatStrings, rhs \in RightOperands :
          last' = [op |-> "modulus", lhs |-> String(format_string), rhs |-> rhs,
                   result |-> Value_modulus(String(format_string), rhs)]
    /\ UNCHANGED <<stack, io, steps, lexer, consumed, parser>>

\* Value::modulus on a Number, a Bool or a List
ModulusOther ==
    /\ last.op = "new"
    /\ \E lhs \in OtherLeftOperands, rhs \in RightOperands :
          last' = [op |-> "modulus", lhs |-> lhs, rhs |-> rhs,
                   result |-> Value_modulus(lhs, rhs)]
    /\ UNCHANGED <<stack, io, steps, lexer, consumed, parser>>

ModulusNext ==
    \/ ModulusString
    \/ ModulusOther

SpecModulus == ModulusInit /\ [][ModulusNext]_vars

\* the positions of the % of the text that no \ precedes
NonEscaped(text) ==
    {i \in 1..Len(text) : text[i] = "%" /\ (i = 1 \/ text[i - 1] # "\\")}

\* the non-escaped % that no flag follows
InvalidSpecifiers(text) ==
    {i \in NonEscaped(text) : i = Len(text) \/ text[i + 1] \notin FormatFlags}

\* a String has been the left operand of Mod
Formatted == last.op = "modulus" /\ last.lhs.t = "String"

\* C18: String % rhs fails with IncorrectFormatArgs, of the number of
\* non-escaped % and the length of the list of rhs, whenever the two differ,
\* a format string without any % included.
C18_IncorrectFormatArgs ==
    (Formatted
     /\ Cardinality(NonEscaped(last.lhs.v)) # Len(coerce_to_list(last.rhs))) =>
        last.result = Err(IncorrectNumberOfFormatStringArguments(
                              Cardinality(NonEscaped(last.lhs.v)),
                              Len(coerce_to_list(last.rhs))))

\* C19: with as many values as non-escaped %, a non-escaped % that none of
\* n, o, s, l follows, the last character and a % before a % included, makes
\* Mod return InvalidFormatFlag with the number of the first such specifier;
\* Mod never aborts.
C19_InvalidFormatFlag ==
    Formatted =>
        /\ last.result # Err(Panic)
        /\ (/\ Cardinality(NonEscaped(last.lhs.v)) = Len(coerce_to_list(last.rhs))
            /\ InvalidSpecifiers(last.lhs.v) # {}) =>
               /\ last.result.tag = "Err"
               /\ last.result.error.kind = "InvalidFormatFlag"
               /\ \E i \in InvalidSpecifiers(last.lhs.v) :
                     /\ \A j \in InvalidSpecifiers(last.lhs.v) : i <= j
                     /\ last.result.error.specifier_num
                            = Cardinality({j \in NonEscaped(last.lhs.v) : j <= i})

\* the format string from position i on with the values from index n on put
\* for its specifiers and % for its \%
RECURSIVE Substituted(_, _, _, _)
Substituted(text, values, i, n) ==
    IF i > Len(text) THEN <<>>
    ELSE IF text[i] = "\\" /\ i < Len(text) /\ text[i + 1] = "%"
         THEN <<"%">> \o Substituted(text, values, i + 2, n)
    ELSE IF text[i] = "%"
         THEN (CASE text[i + 1] = "n" -> NumberToText(coerce_to_number(values[n]))
                 [] text[i + 1] = "o" -> Display(Bool(coerce_to_bool(values[n])))
                 [] text[i + 1] = "s" -> coerce_to_string(values[n])
                 [] text[i + 1] = "l" -> Display(List(coerce_to_list(values[n]))))
              \o Substituted(text, values, i + 2, n + 1)
    ELSE <<text[i]>> \o Substituted(text, values, i + 1, n)

NotANumber == Value_modulus(Number(0), Number(0)).value

Scalars ==
    {Number(0), Number(1), NotANumber, Bool(TRUE), Bool(FALSE), String(<<>>),
     String(<<"a">>)}

\* the scalars and the lists of at most MaxElements of them, of the empty
\* list and of a list of one scalar
Values ==
    Scalars
    \cup { List(l) : l \in UNION { [1..n -> Scalars \cup {EmptyList, List(<<Number(1)>>)}]
                                     : n \in 0..MaxElements } }

ValueInit ==
    /\ last = [op |-> "new"]
    /\ stack = Runtime_new
    /\ io = IdleIo
    /\ steps = 0
    /\ NoSource

\* Value::coerce_to_bool and Value::coerce_to_list of one value
Coerce ==
    /\ last.op = "new"
    /\ \E value \in Values :
          last' = [op |-> "coerce", value |-> value,
                   to_bool |-> coerce_to_bool(value),
                   to_list |-> coerce_to_list(value)]
    /\ UNCHANGED <<stack, io, steps, lexer, consumed, parser>>

\* Value::seq and Value::eq of two values
Compare ==
    /\ last.op = "new"
    /\ \E lhs \in Values, rhs \in Values :
          last' = [op |-> "compare", lhs |-> lhs, rhs |-> rhs,
                   seq |-> Value_seq(lhs, rhs), eq |-> Value_eq(lhs, rhs)]
    /\ UNCHANGED <<stack, io, steps, lexer, consumed, parser>>

\* the elements of the lists that are displayed: numbers, booleans, and
\* lists of them nested once and twice
DisplayedElements ==
    {Number(1), Number(0), Bool(FALSE), EmptyList, List(<<Number(2)>>),
     List(<<List(<<Bool(TRUE)>>), Number(3)>>)}

\* the lists of at most MaxElements + 1 of them: a list of three elements
\* has a first, a middle and a last one
DisplayedLists ==
    { List(l) : l \in UNION { [1..n -> DisplayedElements] : n \in 0..(MaxElements + 1) } }

\* the value of a after the block has been executed, or the failure
RedisplayedValue(executed) ==
    IF IsErr(executed) THEN executed.res ELSE get_variable(executed.w.stack, T_a)

\* the block that the parser returned is executed, or its failure is kept
RedisplayExecute(parsed) ==
    IF parsed.res.tag = "Err" THEN parsed.res
    ELSE RedisplayedValue(Block_execute(parsed.res.value, World(stack, io), MaxFuel))

\* the tokens of the lexer are parsed, unless it failed
RedisplayParse(lexed) ==
    IF lexed.panicked THEN Err(Panic)
    ELSE RedisplayExecute(parse(Parser_new(lexed.token_vec)))

\* the display form of a list (impl Display for Value) as the right side of
\* an assignment to a, in a program of one line that main.rs lexes, parses
\* and executes; the value of a afterwards
Redisplay ==
    /\ last.op = "new"
    /\ \E value \in DisplayedLists :
          last' = [op |-> "redisplay", value |-> value, text |-> Display(value),
                   result |-> RedisplayParse(
                       Lex(<<"a", " ", "=", " ">> \o Display(value) \o <<"\n">>))]
    /\ UNCHANGED <<stack, io, steps, lexer, consumed, parser>>

ValueNext ==
    \/ Coerce
    \/ Compare
    \/ Redisplay

SpecValue == ValueInit /\ [][ValueNext]_vars

\* C21: for every value, its list is non-empty if and only if its bool is
\* true.
C21_ListNonEmptyIffTruthy ==
    last.op = "coerce" => ((last.to_list # <<>>) <=> last.to_bool)

\* C21 as amended: for every value whose bool is true, its list is non-empty.
C21_TruthyHasNonEmptyList ==
    (last.op = "coerce" /\ last.to_bool) => last.to_list # <<>>

\* a list with a false and a true element has been coerced
C21_Witness ==
    /\ last.op = "coerce"
    /\ last.value = List(<<Number(0), Number(1)>>)
    /\ last.to_bool
    /\ Len(last.to_list) = 2

\* C22: strict equality holds between every value and itself, holds between
\* no two values of different variants, and implies coercing equality.
C22_StrictEquality ==
    last.op = "compare" =>
        /\ last.lhs = last.rhs => last.seq = Bool(TRUE)
        /\ last.lhs.t # last.rhs.t => last.seq = Bool(FALSE)
        /\ last.seq = Bool(TRUE) => last.eq = Bool(TRUE)

\* the start, the step and the stop that the arguments of arnge stand for
RangeStart(args) == IF Len(args) = 1 THEN 0 ELSE coerce_to_number(args[1])
RangeStep(args) == IF Len(args) = 3 THEN coerce_to_number(args[2]) ELSE 1
RangeStop(args) == coerce_to_number(args[Len(args)])

CallHead ==
    <<"f", "n", "u", "c", " ", "f", "(", "(", "n", ")", "\n", " ", " ", " ",
      "r", "e", "t", "r", "u", "n", " ", "n", " ", "*", " ">>
CallMiddle ==
    <<"\n", "p", "r", "o", "i", "n", "t", "l", "(", "(", "f", "(">>
LoopHead ==
    <<"x", " ", "=", " ", "0", "\n">>
LoopMiddle ==
    <<"w", "h", "i", "t", "l", " ", "r", "t", "u", "e", " ", "\n", " ", " ",
      " ", "f", "i", " ", "x", " ", "=", "=", "=", " ">>
LoopTail ==
    <<"\n", " ", " ", " ", " ", " ", " ", "b", "r", "e", "k", " ", "\n", " ",
      " ", " ", "x", " ", "=", " ", "x", " ", "+", " ", "1", "\n", "p", "r",
      "o", "i", "n", "t", "l", "(", "(", "x", ")", "\n">>

\* the ways the three closing parentheses of prointl((f(21 are written
Closers ==
    {<<")", ")", ")">>, <<")", ")", " ", ")">>, <<")", " ", ")", ")">>,
     <<")", " ", ")", " ", ")">>, <<")", ")">>, <<")", " ", ")">>, <<")">>}

\* fnuc f((n)
\*    retrun n * factor
\* prointl((f(argument, and the closers
CallSources ==
    { [entry |-> "call", argument |-> argument, factor |-> factor, closers |-> closers]
        : argument \in {0, 7, 21}, factor \in {2, 3}, closers \in Closers }

\* x = 0
\* whitl rtue           after indent spaces
\*    fi x === limit
\*       brek
\*    x = x + 1
\* prointl((x)
LoopSources ==
    { [entry |-> "loop", limit |-> limit, indent |-> indent]
        : limit \in 0..MaxLimit, indent \in 0..2 }

MainSource(input) ==
    IF input.entry = "call"
    THEN CallHead \o NatToText(input.factor) \o CallMiddle \o NatToText(input.argument)
         \o input.closers \o <<"\n">>
    ELSE LoopHead \o Spaces(input.indent) \o LoopMiddle \o NatToText(input.limit)
         \o LoopTail

\* main.rs:33: Lexer::new(&source)
MainInit ==
    /\ last \in { [op |-> "source", input |-> input]
                    : input \in CallSources \cup LoopSources }
    /\ lexer = Lexer_new(MainSource(last.input))
    /\ consumed = <<>>
    /\ parser = Parser_new(<<>>)
    /\ stack = Runtime_new
    /\ io = IdleIo
    /\ steps = 0

\* main.rs:34-47: lexer.lex() and Parser::new(tokens); the panic of lex ends
\* the process
MainLex ==
    /\ last.op = "source"
    /\ LET lexed == lex(lexer, Len(lexer.remaining_source))
       IN  /\ lexer' = lexed
           /\ parser' = IF lexed.panicked THEN parser ELSE Parser_new(lexed.token_vec)
           /\ last' = [op |-> IF lexed.panicked THEN "aborted" ELSE "lexed",
                       input |-> last.input]
    /\ UNCHANGED <<consumed, stack, io, steps>>

\* main.rs:43-57: parser.parse(), unless there is no token
MainParse ==
    /\ last.op = "lexed"
    /\ parser.tokens # <<>>
    /\ LET r == parse(parser)
       IN  /\ parser' = r.p
           /\ last' = [op |-> "parsed", input |-> last.input, result |-> r.res]
    /\ UNCHANGED <<lexer, consumed, stack, io, steps>>

\* main.rs:59: ast.execute(&mut Runtime::new())
MainExecute ==
    /\ last.op = "parsed"
    /\ last.result.tag = "Ok"
    /\ LET r == Block_execute(last.result.value, World(stack, io), MaxFuel)
       IN  /\ ~(IsErr(r) /\ r.res.error.kind = "OutOfFuel")
           /\ stack' = r.w.stack
           /\ io' = r.w.io
           /\ last' = [op |-> "executed", input |-> last.input, result |-> r.res]
    /\ UNCHANGED <<lexer, consumed, parser, steps>>

MainNext ==
    \/ MainLex
    \/ MainParse
    \/ MainExecute

SpecMain == MainInit /\ [][MainNext]_vars

\* the source has come through the stages reached so far without an error
NoErrorSoFar ==
    /\ last.op # "aborted"
    /\ last.op \in {"parsed", "executed"} => last.result.tag = "Ok"

\* C24: the source of f and prointl((f(21))), the closing parentheses
\* written adjacently, lexes, parses and runs without error and writes 42
\* and a newline.
C24_AdjacentClosers ==
    (/\ last.input.entry = "call"
     /\ last.input.argument = 21
     /\ last.input.factor = 2
     /\ last.input.closers = <<")", ")", ")">>) =>
        /\ NoErrorSoFar
        /\ last.op = "executed" => io.stdout = <<"4", "2", "\n">>

\* C24 as amended: the source of f and prointl((f(21)) ), the closing run of
\* the call of f separated by a space from that of prointl, lexes, parses and
\* runs without error and writes 42 and a newline; so for the other
\* arguments and factors, with their product.
C24_SeparatedClosers ==
    (last.input.entry = "call" /\ last.input.closers = <<")", ")", " ", ")">>) =>
        /\ NoErrorSoFar
        /\ last.op = "executed" =>
               io.stdout = NatToText(last.input.argument * last.input.factor) \o <<"\n">>

\* prointl((f(21)) ) has run
C24_Witness ==
    /\ last.op = "executed"
    /\ last.input.entry = "call"
    /\ last.input.argument = 21
    /\ last.input.factor = 2
    /\ last.input.closers = <<")", ")", " ", ")">>
    /\ last.result = OkUnit
    /\ io.stdout = <<"4", "2", "\n">>

\* C25: the source of the loop with whitl in the column of x = 0 and the
\* limit 3 lexes, parses and runs without error and writes 3 and a newline.
C25_LoopAtColumnOfAssignment ==
    (last.input.entry = "loop" /\ last.input.limit = 3 /\ last.input.indent = 0) =>
        /\ NoErrorSoFar
        /\ last.op = "executed" => io.stdout = <<"3", "\n">>

\* C25 as amended: the source of the loop with whitl one column to the right
\* of x = 0 lexes, parses and runs without error and writes 3 and a newline:
\* the loop increments the outer x until the break, and the statement after
\* the loop sees it; so for the other limits.
C25_LoopIndentedByOne ==
    (last.input.entry = "loop" /\ last.input.indent = 1) =>
        /\ NoErrorSoFar
        /\ last.op = "executed" => io.stdout = NatToText(last.input.limit) \o <<"\n">>
        /\ last.op = "executed" =>
               get_variable(<<stack[1]>>, <<"x">>) = Ok(Number(last.input.limit))

\* the loop with the limit 3 has run
C25_Witness ==
    /\ last.op = "executed"
    /\ last.input.entry = "loop"
    /\ last.input.limit = 3
    /\ last.input.indent = 1
    /\ last.result = OkUnit
    /\ io.stdout = <<"3", "\n">>

\* C26: where the remaining text of a source matches none of the token
\* patterns, lex stops and returns the UnexpectedSymbol failure with the
\* position of the character; it does not abort.  The lexer has no result
\* but its token vector and the panic, so it is never to panic.
C26_UnexpectedSymbol == ~lexer.panicked

\* C27: a brek or cnotineu executed in the body of a user function outside
\* any loop of that body propagates out of the call as an error and neither
\* ends nor continues a loop of the caller around the call: the program fails
\* with it at the call.
C27_SentinelLeavesCallAsError ==
    (last.op = "run" /\ last.input.entry = "escaping") =>
        /\ last.result.tag = "Err"
        /\ last.result.error.kind = last.input.sentinel.node
        /\ io.stdout = IF last.input.loop = "whitl" THEN <<"0", "1">> ELSE <<"1">>
\* C28: wherever an expression is required and no operand is produced (after
\* =, after retrun, as a condition, after a comma in a list or an argument
\* list, after an operator, inside an empty parenthesised pair), parse returns
\* MissingExpression and does not abort.
C28_MissingExpression ==
    (last.op = "parse" /\ last.input.entry = "missing") =>
        /\ last.result.tag = "Err"
        /\ last.result.error.kind = "MissingExpression"

\* the value of x where f is called: that of the top-most binding of x on
\* the stack at that time
BoundAtCall(input) ==
    CASE input.binder = "before" -> 1
      [] input.binder \in {"after", "rebound"} -> 2
      [] input.binder = "caller" -> 3
      [] input.binder = "parameter" -> 4

\* C29: in the body of a function, a variable that the call does not bind has
\* the value of the top-most binding on the scope stack at the time of the
\* call, whether the program or the caller made it and whatever was bound
\* where the function was defined (Name when nothing binds it); an assignment
\* of the body to it overwrites that binding, and the caller reads the new
\* value after the call has returned.
C29_DynamicResolution ==
    (last.op = "run" /\ last.input.entry = "dynamic") =>
        IF last.input.binder = "none"
        THEN last.result = Err(NameError(T_x))
        ELSE /\ last.result = OkUnit
             /\ get_variable(stack, T_r)
                  = Ok(List(<<Number(BoundAtCall(last.input)),
                              Number(BoundAtCall(last.input)
                                       + (IF last.input.assign THEN 5 ELSE 0))>>))
             /\ last.input.binder \in {"before", "after", "rebound"} =>
                  get_variable(stack, T_x)
                    = Ok(Number(BoundAtCall(last.input)
                                  + (IF last.input.assign THEN 5 ELSE 0)))

\* f, called by g, has read the x that g bound and has assigned to it, and g
\* has read the new value
C29_Witness ==
    /\ last.op = "run"
    /\ last.input.entry = "dynamic"
    /\ last.input.binder = "caller"
    /\ last.input.caller = "g"
    /\ last.input.assign
    /\ get_variable(stack, T_r) = Ok(List(<<Number(3), Number(8)>>))

\* C30: a variable that nothing binds before a conditional and that the
\* executing branch is the first to assign to is unbound again (get_variable
\* gives Name) when the conditional has completed normally, whatever the
\* branch does after the assignment, the call of a builtin included.
C30_BranchBindingEnds ==
    (last.op = "run" /\ last.input.entry = "binding" /\ last.result = OkUnit) =>
        get_variable(stack, T_x) = Err(NameError(T_x))

\* C31: after a call has returned a value through a retrun inside a
\* conditional or a loop of the body, the scope of the call is gone: the
\* parameter and the local variable of the function, unbound before the call,
\* are unbound in the caller.
C31_CallScopeRemoved ==
    (last.op = "run" /\ last.input.entry = "local") =>
        /\ last.result = OkUnit
        /\ get_variable(stack, T_r) = Ok(Number(5))
        /\ get_variable(stack, T_a) = Err(NameError(T_a))
        /\ get_variable(stack, T_b) = Err(NameError(T_b))

\* the block at level of the nest of headers, where the line b = 2 is a
\* member of the block at the level of its column / 3
RECURSIVE DedentBlock(_, _, _)
DedentBlock(headers, level, target) ==
    IF headers = <<>> THEN <<AssignNode(T_a, Lit(1))>>
    ELSE <<HeaderNode(headers[1], DedentBlock(Tail(headers), level + 1, target))>>
         \o (IF level = target THEN <<AssignNode(T_b, Lit(2))>> ELSE <<>>)

\* C32: a statement is a member of the block whose level is column / 3 of its
\* first token: after nested blocks that end by a dedent of one or more
\* levels, the statement that follows is a member of the enclosing block at
\* its own level and of no block between.
C32_StatementAtItsLevel ==
    (last.op = "parse" /\ last.input.entry = "dedent") =>
        last.result = Ok(DedentBlock(last.input.headers, 0, last.input.level))

\* the fi of an attachment, with the sele or the lefi as its own
AttachedConditional(input) ==
    LET body == <<HeaderNode(input.nested, <<AssignNode(T_a, Lit(1))>>)>>
                \o (IF input.between THEN <<AssignNode(T_c, Lit(3))>> ELSE <<>>)
        block == <<AssignNode(T_b, Lit(2))>>
    IN  IF input.keyword = "sele"
        THEN ConditionalNode(<<ConditionalPath(VariableNode(T_a), body)>>, <<block>>)
        ELSE ConditionalNode(<<ConditionalPath(VariableNode(T_a), body),
                               ConditionalPath(VariableNode(T_a), block)>>, <<>>)

\* C33: a sele or a lefi belongs to the fi whose header is at its level: one
\* at level L that follows a nested fi at level L + 1, in the block of a fi
\* at level L, is the sele or lefi of the fi at level L and never of the
\* nested one, and its block is made of the statements at level L + 1 that
\* follow it.
C33_ElseOfItsLevel ==
    (last.op = "parse" /\ last.input.entry = "attachment") =>
        last.result
          = Ok(IF last.input.level = 1
               THEN <<WhileLoopNode(VariableNode(T_a),
                                    <<AttachedConditional(last.input)>>)>>
               ELSE <<AttachedConditional(last.input)>>)

\* C34: when a statement with a block of its own (fi, whitl, fir, fnuc) is
\* followed by a statement of the enclosing block whose first token stands at
\* the column of the header, parsing fails with ConsistentIndentation
\* carrying that column.
C34_SameColumnAfterCompound ==
    (last.op = "parse" /\ last.input.entry = "compound"
       /\ last.input.first = last.input.second) =>
        /\ last.result.tag = "Err"
        /\ last.result.error.kind = "ConsistentIndentation"
        /\ last.result.error.previous_indentation
             = 3 * last.input.level + last.input.first

\* C35: parse returns Ok only when it has consumed every token: no program,
\* empty or not, is returned while tokens are left, as when the first
\* statement or a later line of the program starts at column 3 or more.
C35_OkConsumesAllTokens ==
    (last.op = "parse" /\ last.result.tag = "Ok") => parser.tokens = <<>>

\* C36: the display form of a list of numbers, booleans and nested lists
\* lexes into bracket runs that fuse no two delimiters and that close every
\* opening run by a run of another length, so that it parses back to the same
\* list, also when the first or a middle element is a list.
C36_DisplayParsesBack ==
    last.op = "redisplay" => last.result = Ok(last.value)

(***************************************************************************)
(* builtins.rs: range, one iteration of its loop at a time.  The vector of *)
(* the sequence grows by one value at each iteration; the memory of the    *)
(* process holds MaxSequence of them, and a push beyond that aborts the    *)
(* process.                                                                *)
(***************************************************************************)
RangeInit ==
    /\ last = [op |-> "new"]
    /\ stack = Runtime_new
    /\ io = IdleIo
    /\ steps = 0
    /\ NoSource

\* range, up to the loop: the count of the arguments, finish, start and step
RangeEnter ==
    /\ last.op = "new"
    /\ \E input \in RangeCalls :
          last' = IF Len(input.args) = 0 \/ Len(input.args) > 3
                  THEN [op |-> "returned", args |-> input.args,
                        result |-> Err(SignatureError(T_arnge, 3, Len(input.args)))]
                  ELSE [op |-> "loop", args |-> input.args,
                        current |-> RangeStart(input.args),
                        finish |-> RangeStop(input.args),
                        step |-> RangeStep(input.args), sequence |-> <<>>]
    /\ UNCHANGED <<stack, io, steps, lexer, consumed, parser>>

\* while current < finish: sequence.push(Value::Number(current)); current += step
RangeIterate ==
    /\ last.op = "loop"
    /\ NumberLt(last.current, last.finish)
    /\ Len(last.sequence) < MaxSequence
    /\ last' = [last EXCEPT !.sequence = Append(@, Number(last.current)),
                            !.current = Plus(@, last.step)]
    /\ UNCHANGED <<stack, io, steps, lexer, consumed, parser>>

\* sequence.push with no memory left for one more value
RangeExhaust ==
    /\ last.op = "loop"
    /\ NumberLt(last.current, last.finish)
    /\ Len(last.sequence) = MaxSequence
    /\ last' = [op |-> "aborted", args |-> last.args]
    /\ UNCHANGED <<stack, io, steps, lexer, consumed, parser>>

\* the condition of the loop is false: Ok(Value::List(sequence))
RangeReturn ==
    /\ last.op = "loop"
    /\ ~NumberLt(last.current, last.finish)
    /\ last' = [op |-> "returned", args |-> last.args,
                result |-> Ok(List(last.sequence))]
    /\ UNCHANGED <<stack, io, steps, lexer, consumed, parser>>

RangeNext ==
    \/ RangeEnter
    \/ RangeIterate
    \/ RangeExhaust
    \/ RangeReturn

\* the process runs on while it has a step to take
SpecRange == RangeInit /\ [][RangeNext]_vars /\ WF_vars(RangeNext)

\* C37: every call of arnge with one to three arguments terminates, also
\* with three arguments of which the step is zero or negative and the start
\* is below the stop.
C37_RangeTerminates == <>(last.op = "returned")

(***************************************************************************)
(* The loop of lex as a process of its own: Lexer::new on a source, then   *)
(* the turns of the loop, which goes on while it has a turn to take.       *)
(***************************************************************************)
LexFairInit ==
    /\ last = [op |-> "new"]
    /\ lexer = Lexer_new(<<>>)
    /\ consumed = <<>>
    /\ parser = Parser_new(<<>>)
    /\ stack = Runtime_new
    /\ io = IdleIo
    /\ steps = 0

\* the sources of the process: the concatenations of fewer pieces, whole
\* programs, and lines with strings, closed or not, and numbers
LexedSources ==
    Sources(MaxPieces - 1)
    \cup { MainSource(input) : input \in LoopSources }
    \cup { <<"a", " ", "=", " ", Quote, "b", " ", "c", Quote, Quote, "\n">>,
           <<"a", " ", "=", " ", Quote, Quote, "b", "\n", "c", Quote, " ", "%", " ", "1">>,
           <<"a", " ", "=", " ", Quote, "b", "\n">>,
           <<"a", " ", "=", "=", "=", " ", "3", ".", "1", "4", " ", "!", "=", " ", "1", ".">>,
           <<"[", "[", "1", ",", " ", "]", "]", "]", " ", "\t", "<", "=", "\n", "\n">> }

\* main.rs: Lexer::new(&source)
LexStart ==
    /\ last.op = "new"
    /\ \E source \in LexedSources :
          /\ lexer' = Lexer_new(source)
          /\ last' = [op |-> "lex", source |-> source]
    /\ UNCHANGED <<consumed, parser, stack, io, steps>>

\* lexer.rs: Lexer::lex, one turn of the while loop, whichever branch it takes
LexOneTurn ==
    /\ last.op = "lex"
    /\ Lexing(lexer)
    /\ lexer' = LexTurn(lexer)
    /\ UNCHANGED <<consumed, stack, io, steps, last, parser>>

LexFairNext ==
    \/ LexStart
    \/ LexOneTurn

SpecLexFair ==
    LexFairInit /\ [][LexFairNext]_vars /\ WF_vars(LexStart) /\ WF_vars(LexOneTurn)

\* a turn of the loop takes at least one character from the remaining
\* source, or stops with the failure
TurnConsumes ==
    \/ last.op = "new"
    \/ lexer'.panicked
    \/ /\ Len(lexer'.remaining_source) < Len(lexer.remaining_source)
       /\ lexer'.remaining_source
            = Drop(lexer.source, Len(lexer.source) - Len(lexer'.remaining_source))

\* C38: lex terminates on every source: each turn of its loop takes a run of
\* whitespace, a newline or a token of at least one character from the
\* remaining source, or stops with the failure, so that the remaining source
\* shrinks until it is empty.
C38_LexTerminates ==
    [][TurnConsumes]_vars /\ <>(last.op = "lex" /\ ~Lexing(lexer))

\* the line a = "b c"" has been taken whole, as four tokens and three runs
\* of whitespace, and nothing is left
C38_Witness ==
    /\ last.op = "lex"
    /\ last.source = <<"a", " ", "=", " ", Quote, "b", " ", "c", Quote, Quote, "\n">>
    /\ lexer.remaining_source = <<>>
    /\ ~lexer.panicked
    /\ Len(lexer.token_vec) = 4
    /\ lexer.current_position = Len(last.source)

=============================================================================
